---------------------------- MODULE Spec2Model ----------------------------
(***************************************************************************)
(* mac2mqtt: the connection-resilience engine (Application.Run and        *)
(* getMQTTClientWithRetry), the command dispatch router                    *)
(* (Application.listen and its category handlers), the CPU sampler, the    *)
(* user-activity monitor and the media stream, src/mac2mqtt.go.            *)
(*                                                                         *)
(* The specifications share the variables:                                 *)
(*   Spec / FairSpec  Run from its first line: the connect cycle, the      *)
(*                    offline branch, the initial setup and the ticker     *)
(*                    loop, with the broker as environment;                *)
(*   FairTicks        FairSpec with each of the three tickers firing       *)
(*                    again and again;                                     *)
(*   SpecFeeds        Spec with the readers of the media stream ending     *)
(*                    and cancelled pollers returning;                     *)
(*   SpecCmd          the main loop running and connected, inbound         *)
(*                    command messages handed to listen, one followed      *)
(*                    from its arrival to the handler's return;            *)
(*   SpecDispatch     SpecCmd with the client handing the next message to  *)
(*                    a handler of its own while the first one runs;       *)
(*   SpecDisplays     SpecCmd with the awake tick's refresh of the display *)
(*                    list and the brightness handler's loop step by step; *)
(*   SpecCPU          calls of getCPUUsage on successive counter samples;  *)
(*   SpecAct          the activity monitor's ticker, its inactivity timer  *)
(*                    and the timer's callbacks;                           *)
(*   SpecActDefault   SpecAct under a configuration file that does not     *)
(*                    name idle_activity_time;                             *)
(*   SpecMedia        the media stream's reader taking lines of the feed;  *)
(*   SpecMerge        processMediaStreamUpdate statement by statement in   *)
(*                    the goroutines of two readers.                       *)
(***************************************************************************)
EXTENDS Integers, Sequences, FiniteSets, TLC

VARIABLES
    pc,                  \* where the process is: a position in Run, or how it ended
    brokerReachable,     \* environment: a TCP dial to the broker succeeds
    configSSL,           \* app.config.SSL
    client,              \* app.client: "nil" or the paho client
    connected,           \* client.IsConnected() of the paho client
    retryCount,          \* argument of the running getMQTTClientWithRetry call
    cycleLog,            \* events of the connect cycle, in order
    cycleResult,         \* what getMQTTClient returned ("none" while it runs)
    networkReachable,    \* Run's local networkReachable
    lastConnectionState, \* Run's local lastConnectionState
    reconnectRequested,  \* the last network check launched the explicit
                         \* client.Connect() of lines 2347-2351
    lastPub,             \* status names published by the last step of Run
    displays,            \* app.displays: the DisplayIDs, in order
    msg,                 \* the last inbound message and what listen did with it
    nextMsg,             \* a message that arrived while the handler of msg
                         \* was running, and what its own handler did with it
    ranging,             \* the loop of handleDisplayBrightnessCommand that is
                         \* under way: the slice it ranges over and its position
    handlerPending,      \* the client has started connectHandler for the present
                         \* connection and the handler has not run yet
    connPubs,            \* what connectHandler and Run's initial setup sent on
                         \* the present connection, in order
    retainedAlive,       \* the broker's retained message at {prefix}/status/alive
    lastTick,            \* the case of the main loop's select that ran last
    tickPubs,            \* the publication classes whose tick has published
                         \* since the client last connected
    configIdleActivityTime, \* app.config.IdleActivityTime, in seconds
    lastCPU,             \* app.lastCPU: the counters of the previous sample
    cpuCall,             \* the last call of getCPUUsage: what it read and returned
    userActivityState,   \* app.userActivityState
    lastActivityPub,     \* the last value published on
                         \* {prefix}/status/user_activity ("none": none yet)
    activityTimer,       \* app.activityTimer and the time it has left
    callbacks,           \* timer callbacks started by the runtime, not yet run
    sinceTrigger,        \* sampling intervals since the last sample that called
                         \* resetActivityTimer (-1: there was none)
    inactiveAt,          \* when, counted like sinceTrigger, the state became
                         \* inactive since that sample, in order
    actLast,             \* the last step of the activity monitor
    pendingTimers,       \* timers of the runtime that time.AfterFunc armed and
                         \* that have neither expired nor been stopped
    currentMediaState,   \* app.currentMediaState
    linesRead,           \* lines the stream reader has taken from the feed
    updates,             \* per reader, its execution of processMediaStreamUpdate
                         \* that has begun and not returned
    mediaEvent,          \* the last line the reader took and what came of it
    connections,         \* connections the client has established so far
    mediaControl,        \* isMediaControlAvailable(): media-control is installed
    readers,             \* the stream readers started so far: how many are
                         \* reading and how many have ended
    pollers              \* the activity pollers that have not returned, oldest
                         \* first: the context, lastIdleTime and ticker of each

connVars == <<brokerReachable, configSSL, client, connected, retryCount, cycleLog,
              cycleResult, networkReachable, lastConnectionState,
              reconnectRequested, lastPub>>
cmdVars == <<displays, msg, nextMsg, ranging>>
hndVars == <<handlerPending, connPubs, retainedAlive, lastTick, tickPubs>>
cfgVars == <<configIdleActivityTime>>
timerVars == <<activityTimer, callbacks, sinceTrigger, inactiveAt, actLast, pendingTimers>>
cpuVars == <<lastCPU, cpuCall>>
actVars == <<userActivityState, lastActivityPub, activityTimer, callbacks, sinceTrigger, inactiveAt,
             actLast, pendingTimers>>
mediaVars == <<currentMediaState, linesRead, updates, mediaEvent>>
subVars == <<cfgVars, cpuVars, actVars, mediaVars>>
lifeVars == <<connections, mediaControl, readers, pollers>>
vars == <<pc, connVars, cmdVars, hndVars, subVars, lifeVars>>

(***************************************************************************)
(* Program constants.                                                      *)
(***************************************************************************)
MaxVolume == 100
MinVolume == 0
MaxBrightness == 100
MinBrightness == 0
MaxRetryAttempts == 1

\* app.getTopicPrefix(): topic prefix + "/" + hostname, fixed at startup.
getTopicPrefix == "mac2mqtt/host"

(***************************************************************************)
(* Sequence helpers.                                                       *)
(***************************************************************************)
Count(s, e) == Cardinality({i \in DOMAIN s : s[i] = e})

Has(s, e) == \E i \in DOMAIN s : s[i] = e

Last(s) == s[Len(s)]

(***************************************************************************)
(* The connect cycle: getMQTTClient and getMQTTClientWithRetry.            *)
(* cycleLog holds "probe_ok", "probe_fail", "hs_ssl_ok", "hs_ssl_fail",    *)
(* "hs_tcp_ok", "hs_tcp_fail" and "fallback" in the order they happened.   *)
(***************************************************************************)
HandshakeEvents == {"hs_ssl_ok", "hs_ssl_fail", "hs_tcp_ok", "hs_tcp_fail"}

Handshakes(log) == Cardinality({i \in DOMAIN log : log[i] \in HandshakeEvents})

\* isNetworkReachable: net.DialTimeout to the broker's address.
isNetworkReachable == brokerReachable

\* Run, up to the call of getMQTTClient: getMQTTClientWithRetry(0).
getMQTTClient ==
    /\ pc = "start"
    /\ pc' = "gc_probe"
    /\ retryCount' = 0
    /\ UNCHANGED <<brokerReachable, configSSL, client, connected, cycleLog,
                   cycleResult, networkReachable, lastConnectionState,
                   reconnectRequested, lastPub, cmdVars, hndVars, subVars, lifeVars>>

\* getMQTTClientWithRetry, lines 1206-1214: the recursion guard and the probe.
CycleProbe ==
    /\ pc = "gc_probe"
    /\ IF retryCount > MaxRetryAttempts
       THEN /\ cycleResult' = "err_budget"
            /\ pc' = "run_err"
            /\ UNCHANGED cycleLog
       ELSE IF ~isNetworkReachable
       THEN /\ cycleLog' = Append(cycleLog, "probe_fail")
            /\ cycleResult' = "err_unreachable"
            /\ pc' = "run_err"
       ELSE /\ cycleLog' = Append(cycleLog, "probe_ok")
            /\ pc' = "gc_handshake"
            /\ UNCHANGED cycleResult
    /\ UNCHANGED <<brokerReachable, configSSL, client, connected, retryCount,
                   networkReachable, lastConnectionState, reconnectRequested,
                   lastPub, cmdVars, hndVars, subVars, lifeVars>>

\* A fallback that forgets to switch the transport.
FallbackSSL_Keep(ssl) == ssl

\* What a failed client.Connect() does to config.SSL (line 1265).
FallbackSSL(ssl) == FALSE

\* app.client assigned before the token's error is looked at.
ClientAfterConnect_Early(old, ok) == "client"

\* What app.client is after client.Connect() returned (line 1271 is reached
\* only when the token carries no error).
ClientAfterConnect(old, ok) == IF ok THEN "client" ELSE old

\* getMQTTClientWithRetry, lines 1216-1273: the handshake with the configured
\* transport, then the fallback recursion, the error return or the assignment
\* of app.client.  ok is what the token of client.Connect() reports: the
\* broker's and the library's doing, either outcome is possible, and a
\* handshake can succeed only with a reachable broker.
CycleHandshake(ok) ==
    /\ pc = "gc_handshake"
    /\ ok => brokerReachable
    /\ LET proto == IF configSSL THEN "ssl" ELSE "tcp"
           ev == "hs_" \o proto \o (IF ok THEN "_ok" ELSE "_fail")
       IN  /\ client' = ClientAfterConnect(client, ok)
           /\ connected' = ok
           /\ IF ok
              THEN /\ cycleLog' = Append(cycleLog, ev)
                   /\ cycleResult' = "ok"
                   /\ pc' = "run_setup"
                   /\ handlerPending' = TRUE
                   /\ connPubs' = <<>>
                   /\ UNCHANGED <<configSSL, retryCount>>
              ELSE IF configSSL
              THEN /\ cycleLog' = Append(Append(cycleLog, ev), "fallback")
                   /\ configSSL' = FallbackSSL(configSSL)
                   /\ retryCount' = retryCount + 1
                   /\ pc' = "gc_probe"
                   /\ UNCHANGED <<cycleResult, handlerPending, connPubs>>
              ELSE /\ cycleLog' = Append(cycleLog, ev)
                   /\ cycleResult' = "err_handshake"
                   /\ pc' = "run_err"
                   /\ UNCHANGED <<configSSL, retryCount, handlerPending, connPubs>>
    /\ connections' = IF ok THEN connections + 1 ELSE connections
    /\ tickPubs' = IF ok THEN {} ELSE tickPubs
    /\ UNCHANGED <<brokerReachable, networkReachable, lastConnectionState,
                   reconnectRequested, lastPub, cmdVars, retainedAlive, lastTick,
                   subVars, mediaControl, readers, pollers>>

(***************************************************************************)
(* Presence.  The broker keeps one retained message per topic; the model   *)
(* follows the one at {prefix}/status/alive.                               *)
(***************************************************************************)
AliveTopic == getTopicPrefix \o "/status/alive"

\* opts.SetWill(...), line 1258: what the broker publishes for the client when
\* the connection ends without a DISCONNECT.
Will == [topic |-> AliveTopic, retained |-> TRUE, val |-> "offline"]

\* client.Publish(prefix+"/status/alive", 0, true, "online"), lines 1152, 2290.
OnlinePub == [topic |-> AliveTopic, retained |-> TRUE, val |-> "online"]

\* The retained value at AliveTopic after the broker has published m.
BrokerStores(cur, m) == IF m.topic = AliveTopic /\ m.retained THEN m.val ELSE cur

\* The entries of connPubs that who wrote.
By(who, seq) == [i \in DOMAIN seq |-> [by |-> who, what |-> seq[i]]]

\* The part of seq before its first e (all of it when e is not in it).
UpTo(seq, e) ==
    IF Has(seq, e)
    THEN SubSeq(seq, 1, (CHOOSE i \in DOMAIN seq :
                            seq[i] = e /\ \A j \in 1..(i - 1) : seq[j] # e) - 1)
    ELSE seq

(***************************************************************************)
(* The two feeds: the media stream's readers and the activity monitor's    *)
(* pollers, as Run's initial setup and connectHandler start them.          *)
(***************************************************************************)
\* The connections the client establishes in a run: the first one and the
\* reconnections.
MaxConnections == 2

NoReaders == [running |-> 0, ended |-> 0]

\* startMediaStream, lines 792-853, with the readers r started before.
\* mc: isMediaControlAvailable(); startOK: the pipe was created and
\* media-control started (lines 801-810).  The reader it starts is one more
\* reader: nothing looks for, or ends, the ones that read already.
startMediaStream(r, mc, startOK) ==
    IF mc /\ startOK THEN [r EXCEPT !.running = r.running + 1] ELSE r

\* The goroutine of lines 1034-1071 as it starts: its context is the one just
\* made, lastIdleTime is -1 (line 1041), its ticker has not fired.
NewPoller == [ctx |-> "live", last |-> -1, due |-> FALSE]

\* app.activityCancel(), lines 1024-1026: the context made last is the one
\* of the poller started last.
CancelLatest(p) ==
    IF Len(p) > 0 THEN [p EXCEPT ![Len(p)].ctx = "cancelled"] ELSE p

\* A start that leaves the running poller its context.
startUserActivityMonitoring_NoCancel(p) == Append(p, NewPoller)

\* startUserActivityMonitoring, lines 1021-1074, with the pollers p that
\* have not returned: under the activity lock the previous context is
\* cancelled and a new one made; the new poller gets the new one.
startUserActivityMonitoring(p) == Append(CancelLatest(p), NewPoller)

(***************************************************************************)
(* Run after the connect cycle.                                            *)
(***************************************************************************)
\* Run, lines 2231-2240: the cycle failed; probe again, go on offline when the
\* broker is unreachable, return the error (main then log.Fatal's) otherwise.
RunConnectFailed ==
    /\ pc = "run_err"
    /\ pc' = IF ~isNetworkReachable THEN "run_setup" ELSE "returned"
    /\ UNCHANGED <<connVars, cmdVars, hndVars, subVars, lifeVars>>

\* DisplayIDs that BetterDisplay may report, and one it does not.
DisplayIDs == {"1", "2"}

DisplayLists == {<<>>, <<"1">>, <<"2">>, <<"1", "2">>, <<"2", "1">>}

\* getDisplays, lines 528-565: nil when the BetterDisplay CLI is missing,
\* fails or prints what is not JSON; otherwise the list parsed from its
\* output, which may have no element.
GetDisplaysResults ==
    {[nil |-> TRUE, list |-> <<>>]} \cup {[nil |-> FALSE, list |-> l] : l \in DisplayLists}

\* A refresh that also runs on an empty list.
updateDisplayBrightness_NoSkip(d, currentDisplays) ==
    IF ~currentDisplays.nil THEN currentDisplays.list ELSE d

\* updateDisplayBrightness, lines 1108-1118: app.displays after the call,
\* d before it.  An empty list returns before getDisplays is called.
updateDisplayBrightness(d, currentDisplays) ==
    IF Len(d) = 0 THEN d
    ELSE IF ~currentDisplays.nil THEN currentDisplays.list
    ELSE d

\* setUserActivityState, lines 957-969, on state cur.
setUserActivityState(cur, state, isConnected) ==
    IF cur # state
    THEN [state |-> state, pubs |-> IF isConnected THEN <<state>> ELSE <<>>]
    ELSE [state |-> cur, pubs |-> <<>>]

\* The last value on {prefix}/status/user_activity after the publishes pubs.
ActivityPubAfter(last, pubs) == IF pubs = <<>> THEN last ELSE pubs[Len(pubs)]

\* The initial burst of Run, lines 2258-2270: its update calls, in order.
\* "user_activity" is the call of setUserActivityState; what that call
\* publishes is followed by lastActivityPub.
InitialBurst == <<"discovery", "volume", "mute", "caffeinate", "display_brightness",
                  "now_playing", "user_activity", "disk", "cpu", "memory",
                  "uptime", "media_devices", "public_ip">>

\* Run, lines 2243-2279: tickers, the connection-state locals, the initial
\* setup with the start of the two feeds (lines 2272-2276).  Line 2253 calls app.client.IsConnected() on whatever app.client
\* is: a nil interface value panics.  capOK: the osascript/ioreg calls behind
\* the burst succeed (getCommandOutput log.Fatal's when one fails).
RunSetup(capOK) ==
    /\ pc = "run_setup"
    /\ IF client = "nil"
       THEN /\ pc' = "panicked"
            /\ UNCHANGED <<networkReachable, lastConnectionState, lastPub,
                           connPubs, retainedAlive, readers, pollers>>
       ELSE /\ lastConnectionState' = connected
            /\ networkReachable' = TRUE
            /\ IF connected
               THEN IF capOK
                    THEN /\ pc' = "loop"
                         /\ lastPub' = InitialBurst
                         /\ connPubs' = connPubs \o By("run", InitialBurst)
                         /\ \E startOK \in BOOLEAN :
                                readers' = startMediaStream(readers, mediaControl,
                                                            startOK)
                         /\ pollers' = startUserActivityMonitoring(pollers)
                         /\ UNCHANGED retainedAlive
                    ELSE /\ pc' = "exited"
                         /\ lastPub' = <<"discovery">>
                         /\ connPubs' = connPubs \o By("run", <<"discovery">>)
                         /\ retainedAlive' = BrokerStores(retainedAlive, Will)
                         /\ UNCHANGED <<readers, pollers>>
               ELSE /\ pc' = "loop"
                    /\ lastPub' = <<>>
                    /\ UNCHANGED <<connPubs, retainedAlive, readers, pollers>>
    /\ LET r == setUserActivityState(userActivityState, "inactive", TRUE)
       IN  IF client # "nil" /\ connected /\ capOK
           THEN /\ userActivityState' = r.state
                /\ lastActivityPub' = ActivityPubAfter(lastActivityPub, r.pubs)
           ELSE UNCHANGED <<userActivityState, lastActivityPub>>
    /\ IF client # "nil" /\ connected /\ capOK
       THEN \E currentDisplays \in GetDisplaysResults :
                displays' = updateDisplayBrightness(displays, currentDisplays)
       ELSE UNCHANGED displays
    /\ UNCHANGED <<brokerReachable, configSSL, client, connected, retryCount,
                   cycleLog, cycleResult, reconnectRequested, msg, nextMsg, ranging,
                   handlerPending, lastTick, tickPubs, cfgVars, cpuVars, timerVars,
                   mediaVars, connections, mediaControl>>

\* A tick that publishes whether or not the client is connected.
Tick_Unguarded(pubsOK, pubsFatal, capOK) ==
    /\ pc = "loop"
    /\ IF client = "nil"
       THEN pc' = "panicked" /\ lastPub' = <<>>
       ELSE IF capOK
       THEN pc' = "loop" /\ lastPub' = pubsOK
       ELSE pc' = "exited" /\ lastPub' = pubsFatal
    /\ retainedAlive' =
           IF client # "nil" /\ connected
           THEN IF ~capOK THEN BrokerStores(retainedAlive, Will)
                ELSE IF Has(pubsOK, "alive") THEN BrokerStores(retainedAlive, OnlinePub)
                ELSE retainedAlive
           ELSE retainedAlive
    /\ UNCHANGED <<brokerReachable, configSSL, client, connected, retryCount,
                   cycleLog, cycleResult, networkReachable, lastConnectionState,
                   reconnectRequested, msg, nextMsg, ranging, handlerPending,
                   connPubs, subVars, lifeVars>>

\* One case of the main loop's select for the three publication classes
\* (lines 2284-2314): publish when connected, nothing otherwise.
Tick(pubsOK, pubsFatal, capOK) ==
    /\ pc = "loop"
    /\ IF client = "nil"
       THEN pc' = "panicked" /\ lastPub' = <<>>
       ELSE IF connected
       THEN IF capOK
            THEN pc' = "loop" /\ lastPub' = pubsOK
            ELSE pc' = "exited" /\ lastPub' = pubsFatal
       ELSE pc' = "loop" /\ lastPub' = <<>>
    /\ retainedAlive' =
           IF client # "nil" /\ connected
           THEN IF ~capOK THEN BrokerStores(retainedAlive, Will)
                ELSE IF Has(pubsOK, "alive") THEN BrokerStores(retainedAlive, OnlinePub)
                ELSE retainedAlive
           ELSE retainedAlive
    /\ UNCHANGED <<brokerReachable, configSSL, client, connected, retryCount,
                   cycleLog, cycleResult, networkReachable, lastConnectionState,
                   reconnectRequested, msg, nextMsg, ranging, handlerPending,
                   connPubs, subVars, lifeVars>>

\* The classes that have published once the tick of class c has run.
TickPublished(done, c, capOK) ==
    IF client # "nil" /\ connected /\ capOK THEN done \cup {c} ELSE done

\* case <-volumeTicker.C; getCurrentVolume log.Fatal's when osascript fails.
VolumeTick(capOK) ==
    /\ Tick(<<"volume", "mute", "media_devices", "alive">>, <<>>, capOK)
    /\ lastTick' = "volume"
    /\ UNCHANGED displays
    /\ tickPubs' = TickPublished(tickPubs, "volume", capOK)

\* case <-batteryTicker.C; getBatteryChargePercent log.Fatal's when pmset fails.
BatteryTick(capOK) ==
    /\ Tick(<<"battery", "disk", "cpu", "memory", "uptime", "public_ip">>, <<>>, capOK)
    /\ lastTick' = "battery"
    /\ tickPubs' = TickPublished(tickPubs, "battery", capOK)
    /\ UNCHANGED displays

\* case <-awakeTicker.C; neither update can end the process.  The call of
\* updateDisplayBrightness refreshes app.displays.
AwakeTick ==
    /\ Tick(<<"caffeinate", "display_brightness">>, <<>>, TRUE)
    /\ lastTick' = "awake"
    /\ tickPubs' = TickPublished(tickPubs, "awake", TRUE)
    /\ IF client # "nil" /\ connected
       THEN \E currentDisplays \in GetDisplaysResults :
                displays' = updateDisplayBrightness(displays, currentDisplays)
       ELSE UNCHANGED displays

\* case <-networkCheckTicker.C, lines 2316-2353.  The reconnect condition at
\* line 2342 reads networkReachable after line 2328 has assigned it.
NetworkCheckTick ==
    /\ pc = "loop"
    /\ IF client = "nil"
       THEN /\ pc' = "panicked"
            /\ UNCHANGED <<networkReachable, lastConnectionState, reconnectRequested>>
       ELSE LET currentNetworkState == isNetworkReachable
                currentConnectionState == connected
            IN  /\ pc' = "loop"
                /\ networkReachable' = currentNetworkState
                /\ lastConnectionState' = currentConnectionState
                /\ reconnectRequested' =
                       (currentNetworkState /\ ~networkReachable'
                           /\ ~currentConnectionState)
    /\ lastPub' = <<>>
    /\ lastTick' = "network"
    /\ UNCHANGED <<brokerReachable, configSSL, client, connected, retryCount,
                   cycleLog, cycleResult, cmdVars, handlerPending, connPubs,
                   retainedAlive, tickPubs, subVars, lifeVars>>

(***************************************************************************)
(* The environment: the broker and the paho client's own goroutines.       *)
(***************************************************************************)
Alive == pc \notin {"returned", "panicked", "exited"}

\* The broker becomes reachable or unreachable.
BrokerChange ==
    /\ Alive
    /\ brokerReachable' = ~brokerReachable
    /\ UNCHANGED <<pc, configSSL, client, connected, retryCount, cycleLog,
                   cycleResult, networkReachable, lastConnectionState,
                   reconnectRequested, lastPub, cmdVars, hndVars, subVars, lifeVars>>

\* The connection is lost (keep-alive failure); connectLostHandler only logs,
\* and the broker publishes the will.  The keep-alive works on a scale of
\* tens of seconds (lines 1244-1245): connectHandler, started when the
\* connection came up, has run by then.
ConnectionLost ==
    /\ Alive
    /\ connected
    /\ ~handlerPending
    /\ connected' = FALSE
    /\ retainedAlive' = BrokerStores(retainedAlive, Will)
    /\ UNCHANGED <<pc, brokerReachable, configSSL, client, retryCount, cycleLog,
                   cycleResult, networkReachable, lastConnectionState,
                   reconnectRequested, lastPub, cmdVars, handlerPending, connPubs,
                   lastTick, tickPubs, subVars, lifeVars>>

\* SetAutoReconnect(true): the client that lost its connection reconnects by
\* itself once the broker is reachable again.
AutoReconnect ==
    /\ Alive
    /\ client # "nil"
    /\ ~connected
    /\ brokerReachable
    /\ connections < MaxConnections
    /\ connected' = TRUE
    /\ handlerPending' = TRUE
    /\ connPubs' = <<>>
    /\ connections' = connections + 1
    /\ tickPubs' = {}
    /\ UNCHANGED <<pc, brokerReachable, configSSL, client, retryCount, cycleLog,
                   cycleResult, networkReachable, lastConnectionState,
                   reconnectRequested, lastPub, cmdVars, retainedAlive, lastTick,
                   subVars, mediaControl, readers, pollers>>

\* A handler that subscribes before it announces itself.
connectHandlerSteps_SubscribeFirst ==
    <<"discovery", "subscribe", "volume", "mute", "caffeinate",
      "display_brightness", "now_playing", "user_activity", "online">>

\* connectHandler, lines 1146-1173: what it sends, in the order of its
\* statements (setDevice, the presence marker, the subscription, the state
\* updates).
connectHandlerSteps ==
    <<"discovery", "online", "subscribe", "volume", "mute", "caffeinate",
      "display_brightness", "now_playing", "user_activity">>

\* opts.OnConnect: the client calls connectHandler, in a goroutine of its
\* own, once for every connection it establishes, the first one and every
\* reconnection.  capOK: the osascript call behind updateVolume succeeds
\* (getCommandOutput log.Fatal's when it fails, and the process ends with
\* the connection open).  Lines 1158-1164 start the two feeds before the
\* state updates, each in a goroutine that runs at once; the last statement
\* is setUserActivityState(client, "inactive"), which publishes when it
\* changes the state.
connectHandler(capOK) ==
    /\ Alive
    /\ handlerPending
    /\ handlerPending' = FALSE
    /\ LET steps == IF capOK THEN connectHandlerSteps
                     ELSE UpTo(connectHandlerSteps, "volume")
           online == IF Has(steps, "online")
                     THEN BrokerStores(retainedAlive, OnlinePub)
                     ELSE retainedAlive
       IN  /\ connPubs' = connPubs \o By("handler", steps)
           /\ retainedAlive' = IF capOK THEN online ELSE BrokerStores(online, Will)
           /\ pc' = IF capOK THEN pc ELSE "exited"
    /\ \E startOK \in BOOLEAN :
           readers' = startMediaStream(readers, mediaControl, startOK)
    /\ pollers' = startUserActivityMonitoring(pollers)
    /\ LET r == setUserActivityState(userActivityState, "inactive", connected)
       IN  IF capOK
           THEN /\ userActivityState' = r.state
                /\ lastActivityPub' = ActivityPubAfter(lastActivityPub, r.pubs)
           ELSE UNCHANGED <<userActivityState, lastActivityPub>>
    /\ IF capOK
       THEN \E currentDisplays \in GetDisplaysResults :
                displays' = updateDisplayBrightness(displays, currentDisplays)
       ELSE UNCHANGED displays
    /\ UNCHANGED <<connVars, msg, nextMsg, ranging, lastTick, tickPubs, cfgVars, cpuVars, timerVars,
                   mediaVars, connections, mediaControl>>

(***************************************************************************)
(* Payload text.  A payload is the sequence of its characters, so that the *)
(* conversions below work on it character by character; Str gives the     *)
(* string the code compares with ==.                                       *)
(***************************************************************************)
RECURSIVE Str(_)
Str(s) == IF s = <<>> THEN "" ELSE Head(s) \o Str(Tail(s))

Digits == <<"0", "1", "2", "3", "4", "5", "6", "7", "8", "9">>

IsDigit(c) == \E i \in 1..10 : Digits[i] = c

DigitVal(c) == (CHOOSE i \in 1..10 : Digits[i] = c) - 1

\* strconv.Itoa for n >= 0.
RECURSIVE Itoa(_)
Itoa(n) == IF n < 10 THEN Digits[n + 1] ELSE Itoa(n \div 10) \o Digits[(n % 10) + 1]

\* The digit loop of strconv.Atoi: n = n*10 + (ch - '0'), a syntax error at
\* the first character that is no digit.
RECURSIVE AtoiLoop(_, _)
AtoiLoop(s, n) ==
    IF s = <<>> THEN [ok |-> TRUE, val |-> n]
    ELSE IF ~IsDigit(Head(s)) THEN [ok |-> FALSE, val |-> 0]
    ELSE AtoiLoop(Tail(s), n * 10 + DigitVal(Head(s)))

\* strconv.Atoi as the validators call it: an optional sign, then at least
\* one digit.  (Payloads here are far shorter than the 18 digits at which
\* Atoi can overflow.)
Atoi(s) ==
    IF s = <<>> THEN [ok |-> FALSE, val |-> 0]
    ELSE LET body == IF s[1] \in {"-", "+"} THEN Tail(s) ELSE s
             r == AtoiLoop(body, 0)
         IN  IF body = <<>> THEN [ok |-> FALSE, val |-> 0]
             ELSE IF r.ok /\ s[1] = "-" THEN [ok |-> TRUE, val |-> 0 - r.val]
             ELSE r

\* strconv.ParseBool as the validators call it.
ParseBool(s) ==
    IF Str(s) \in {"1", "t", "T", "TRUE", "true", "True"}
    THEN [ok |-> TRUE, val |-> TRUE]
    ELSE IF Str(s) \in {"0", "f", "F", "FALSE", "false", "False"}
    THEN [ok |-> TRUE, val |-> FALSE]
    ELSE [ok |-> FALSE, val |-> FALSE]

\* strconv.FormatBool.
FormatBool(b) == IF b THEN "true" ELSE "false"

LowerCase == {"a", "b", "c", "d", "e", "f", "g", "h", "i", "j", "k", "l", "m",
              "n", "o", "p", "q", "r", "s", "t", "u", "v", "w", "x", "y", "z"}

UpperCase == {"A", "B", "C", "D", "E", "F", "G", "H", "I", "J", "K", "L", "M",
              "N", "O", "P", "Q", "R", "S", "T", "U", "V", "W", "X", "Y", "Z"}

\* The character class of line 2399, [a-zA-Z0-9\s\-_]; \s is [\t\n\f\r ].
ShortcutClass ==
    LowerCase \cup UpperCase \cup {Digits[i] : i \in 1..10}
        \cup {"\t", "\n", "\f", "\r", " "} \cup {"-", "_"}

(***************************************************************************)
(* Input validation, lines 2358-2416.                                      *)
(***************************************************************************)
\* A validator whose upper limit is exclusive.
validateVolumeInput_Exclusive(payload) ==
    LET r == Atoi(payload)
    IN  IF ~r.ok THEN [ok |-> FALSE, val |-> 0]
        ELSE IF r.val < MinVolume \/ r.val >= MaxVolume THEN [ok |-> FALSE, val |-> 0]
        ELSE [ok |-> TRUE, val |-> r.val]

validateVolumeInput(payload) ==
    LET r == Atoi(payload)
    IN  IF ~r.ok THEN [ok |-> FALSE, val |-> 0]
        ELSE IF r.val < MinVolume \/ r.val > MaxVolume THEN [ok |-> FALSE, val |-> 0]
        ELSE [ok |-> TRUE, val |-> r.val]

validateMuteInput(payload) == ParseBool(payload)

validateBrightnessInput(payload) ==
    LET r == Atoi(payload)
    IN  IF ~r.ok THEN [ok |-> FALSE, val |-> 0]
        ELSE IF r.val < MinBrightness \/ r.val > MaxBrightness
        THEN [ok |-> FALSE, val |-> 0]
        ELSE [ok |-> TRUE, val |-> r.val]

\* TRUE when the shortcut name is accepted (the code returns a nil error).
validateShortcutInput(payload) ==
    IF payload = <<>> THEN FALSE
    ELSE \A i \in DOMAIN payload : payload[i] \in ShortcutClass

validateKeepAwakeInput(payload) == ParseBool(payload)

(***************************************************************************)
(* The command handlers, lines 1322-1466.  A handler yields                *)
(*   handled  its return value,                                            *)
(*   steps    what it did, in program order: the validation of the         *)
(*            payload, Device Capability calls, status read-backs and      *)
(*            publishes,                                                   *)
(*   calls    the Device Capability calls among the steps, in order,       *)
(*   pubs     the publishes among the steps, in order,                     *)
(*   fatal    a call ended the process (runCommand and getCommandOutput    *)
(*            log.Fatal when the external command fails).                  *)
(* capOK: the external command behind the capability call succeeds;        *)
(* readOK: the external command behind the status read-back succeeds.      *)
(***************************************************************************)
Call(cap, num, str) == [cap |-> cap, num |-> num, str |-> str]

Pub(topic, retained, val) == [topic |-> topic, retained |-> retained, val |-> val]

NoCall == Call("", -1, "")

NoPub == Pub("", FALSE, "")

\* The steps of a handler.  ok: the step returned normally.
Validated(ok) == [kind |-> "validate", ok |-> ok, call |-> NoCall, pub |-> NoPub]

Called(c, ok) == [kind |-> "call", ok |-> ok, call |-> c, pub |-> NoPub]

ReadBack(cap, ok) == [kind |-> "read", ok |-> ok, call |-> Call(cap, -1, ""), pub |-> NoPub]

Published(p) == [kind |-> "publish", ok |-> TRUE, call |-> NoCall, pub |-> p]

RECURSIVE CallsOf(_)
CallsOf(steps) ==
    IF steps = <<>> THEN <<>>
    ELSE (IF Head(steps).kind = "call" THEN <<Head(steps).call>> ELSE <<>>)
         \o CallsOf(Tail(steps))

RECURSIVE PubsOf(_)
PubsOf(steps) ==
    IF steps = <<>> THEN <<>>
    ELSE (IF Head(steps).kind = "publish" THEN <<Head(steps).pub>> ELSE <<>>)
         \o PubsOf(Tail(steps))

NotHandled ==
    [handled |-> FALSE, steps |-> <<>>, calls |-> <<>>, pubs |-> <<>>, fatal |-> FALSE]

Handled(steps) ==
    [handled |-> TRUE, steps |-> steps, calls |-> CallsOf(steps),
     pubs |-> PubsOf(steps), fatal |-> FALSE]

Fatal(steps) ==
    [handled |-> FALSE, steps |-> steps, calls |-> CallsOf(steps),
     pubs |-> PubsOf(steps), fatal |-> TRUE]

\* updateVolume, lines 1468-1471: the argument of Publish is read first; the
\* value is whatever the host reports.
updateVolume(readOK) ==
    IF ~readOK THEN <<ReadBack("getCurrentVolume", FALSE)>>
    ELSE <<ReadBack("getCurrentVolume", TRUE),
           Published(Pub(getTopicPrefix \o "/status/volume", FALSE, "current"))>>

\* updateMute, lines 1473-1476.
updateMute ==
    <<ReadBack("getMuteStatus", TRUE),
      Published(Pub(getTopicPrefix \o "/status/mute", FALSE, "current"))>>

\* updateVolume then updateMute.
VolumeAndMute(readOK) ==
    IF ~readOK THEN updateVolume(FALSE) ELSE updateVolume(TRUE) \o updateMute

\* A handler that reports the status before it changes the volume.
handleVolumeCommand_PublishFirst(topic, payload, capOK, readOK) ==
    IF topic # getTopicPrefix \o "/command/volume" THEN NotHandled
    ELSE LET v == validateVolumeInput(payload)
             call == Call("setVolume", v.val, "")
         IN  IF ~v.ok THEN Handled(<<Validated(FALSE)>>)
             ELSE IF ~readOK THEN Fatal(<<Validated(TRUE)>> \o VolumeAndMute(FALSE))
             ELSE IF ~capOK
             THEN Fatal(<<Validated(TRUE)>> \o VolumeAndMute(TRUE)
                        \o <<Called(call, FALSE)>>)
             ELSE Handled(<<Validated(TRUE)>> \o VolumeAndMute(TRUE)
                          \o <<Called(call, TRUE)>>)

handleVolumeCommand(topic, payload, capOK, readOK) ==
    IF topic # getTopicPrefix \o "/command/volume" THEN NotHandled
    ELSE LET v == validateVolumeInput(payload)
             call == Call("setVolume", v.val, "")
         IN  IF ~v.ok THEN Handled(<<Validated(FALSE)>>)
             ELSE IF ~capOK THEN Fatal(<<Validated(TRUE), Called(call, FALSE)>>)
             ELSE IF ~readOK
             THEN Fatal(<<Validated(TRUE), Called(call, TRUE)>> \o VolumeAndMute(FALSE))
             ELSE Handled(<<Validated(TRUE), Called(call, TRUE)>> \o VolumeAndMute(TRUE))

handleMuteCommand(topic, payload, capOK, readOK) ==
    IF topic # getTopicPrefix \o "/command/mute" THEN NotHandled
    ELSE LET v == validateMuteInput(payload)
             call == Call("setMute", -1, FormatBool(v.val))
         IN  IF ~v.ok THEN Handled(<<Validated(FALSE)>>)
             ELSE IF ~capOK THEN Fatal(<<Validated(TRUE), Called(call, FALSE)>>)
             ELSE IF ~readOK
             THEN Fatal(<<Validated(TRUE), Called(call, TRUE)>> \o VolumeAndMute(FALSE))
             ELSE Handled(<<Validated(TRUE), Called(call, TRUE)>> \o VolumeAndMute(TRUE))

\* A switch whose default case hands the message on.
handleSystemCommand_PassUnknown(topic, payload, capOK) ==
    IF topic # getTopicPrefix \o "/command/set" THEN NotHandled
    ELSE LET p == Str(payload)
             cap == CASE p = "sleep" -> "commandSleep"
                      [] p = "displaysleep" -> "commandDisplaySleep"
                      [] p = "displaywake" -> "commandDisplayWake"
                      [] p = "shutdown" -> "commandShutdown"
                      [] p = "screensaver" -> "commandScreensaver"
                      [] OTHER -> "none"
         IN  IF cap = "none" THEN NotHandled
             ELSE IF ~capOK THEN Fatal(<<Called(Call(cap, -1, ""), FALSE)>>)
             ELSE Handled(<<Called(Call(cap, -1, ""), TRUE)>>)

handleSystemCommand(topic, payload, capOK) ==
    IF topic # getTopicPrefix \o "/command/set" THEN NotHandled
    ELSE LET p == Str(payload)
             cap == CASE p = "sleep" -> "commandSleep"
                      [] p = "displaysleep" -> "commandDisplaySleep"
                      [] p = "displaywake" -> "commandDisplayWake"
                      [] p = "shutdown" -> "commandShutdown"
                      [] p = "screensaver" -> "commandScreensaver"
                      [] OTHER -> "none"
         IN  IF cap = "none" THEN Handled(<<>>)
             ELSE IF ~capOK THEN Fatal(<<Called(Call(cap, -1, ""), FALSE)>>)
             ELSE Handled(<<Called(Call(cap, -1, ""), TRUE)>>)

\* A loop that reports the commanded brightness whether or not it was set.
RECURSIVE DisplayLoop_PublishOnError(_, _, _, _, _)
DisplayLoop_PublishOnError(d, i, topic, payload, capOK) ==
    IF i > Len(d) THEN NotHandled
    ELSE IF topic = getTopicPrefix \o "/command/display_" \o d[i] \o "_brightness"
    THEN LET v == validateBrightnessInput(payload)
             call == Call("setDisplayBrightness", v.val, d[i])
             statusTopic == getTopicPrefix \o "/status/display_" \o d[i] \o "_brightness"
         IN  IF ~v.ok THEN Handled(<<Validated(FALSE)>>)
             ELSE Handled(<<Validated(TRUE), Called(call, capOK),
                            Published(Pub(statusTopic, TRUE, Itoa(v.val)))>>)
    ELSE DisplayLoop_PublishOnError(d, i + 1, topic, payload, capOK)

\* The loop of lines 1390-1413 from position i of the display list d.
RECURSIVE DisplayLoop(_, _, _, _, _)
DisplayLoop(d, i, topic, payload, capOK) ==
    IF i > Len(d) THEN NotHandled
    ELSE IF topic = getTopicPrefix \o "/command/display_" \o d[i] \o "_brightness"
    THEN LET v == validateBrightnessInput(payload)
             call == Call("setDisplayBrightness", v.val, d[i])
             statusTopic == getTopicPrefix \o "/status/display_" \o d[i] \o "_brightness"
         IN  IF ~v.ok THEN Handled(<<Validated(FALSE)>>)
             ELSE IF ~capOK THEN Handled(<<Validated(TRUE), Called(call, FALSE)>>)
             ELSE Handled(<<Validated(TRUE), Called(call, TRUE),
                            Published(Pub(statusTopic, TRUE, Itoa(v.val)))>>)
    ELSE DisplayLoop(d, i + 1, topic, payload, capOK)

handleDisplayBrightnessCommand(d, topic, payload, capOK) ==
    IF Len(d) = 0 THEN Handled(<<>>)
    ELSE DisplayLoop(d, 1, topic, payload, capOK)

handleShortcutCommand(topic, payload, capOK) ==
    IF topic # getTopicPrefix \o "/command/runshortcut" THEN NotHandled
    ELSE LET call == Call("commandRunShortcut", -1, Str(payload))
         IN  IF ~validateShortcutInput(payload) THEN Handled(<<Validated(FALSE)>>)
             ELSE IF ~capOK THEN Fatal(<<Validated(TRUE), Called(call, FALSE)>>)
             ELSE Handled(<<Validated(TRUE), Called(call, TRUE)>>)

\* updateCaffeinateStatus, lines 1657-1660, cannot end the process
\* (getCaffeinateStatus ignores the error of its command).
updateCaffeinateStatus ==
    <<ReadBack("getCaffeinateStatus", TRUE),
      Published(Pub(getTopicPrefix \o "/status/caffeinate", FALSE, "current"))>>

handleKeepAwakeCommand(topic, payload, capOK) ==
    IF topic # getTopicPrefix \o "/command/keepawake" THEN NotHandled
    ELSE LET v == validateKeepAwakeInput(payload)
             call == Call(IF v.val THEN "commandKeepAwake" ELSE "commandAllowSleep",
                          -1, "")
         IN  IF ~v.ok THEN Handled(<<Validated(FALSE)>>)
             ELSE IF ~capOK THEN Fatal(<<Validated(TRUE), Called(call, FALSE)>>)
             ELSE Handled(<<Validated(TRUE), Called(call, TRUE)>> \o updateCaffeinateStatus)

\* updateNowPlaying publishes nothing when getMediaInfo returns an error.
handlePlayPauseCommand(topic, payload, capOK, readOK) ==
    IF topic # getTopicPrefix \o "/command/playpause" THEN NotHandled
    ELSE LET call == Call("commandPlayPause", -1, "")
         IN  IF Str(payload) # "playpause" THEN Handled(<<>>)
             ELSE IF ~capOK THEN Fatal(<<Called(call, FALSE)>>)
             ELSE IF ~readOK
             THEN Handled(<<Called(call, TRUE), ReadBack("getMediaInfo", FALSE)>>)
             ELSE Handled(<<Called(call, TRUE), ReadBack("getMediaInfo", TRUE),
                            Published(Pub(getTopicPrefix \o "/status/now_playing",
                                          FALSE, "current")),
                            Published(Pub(getTopicPrefix \o "/status/now_playing_attr",
                                          FALSE, "current"))>>)

\* The categories in the order listen tries them.
Handlers == <<"volume", "mute", "system", "display", "shortcut", "keepawake",
              "playpause">>

Handle(h, d, topic, payload, capOK, readOK) ==
    CASE h = "volume" -> handleVolumeCommand(topic, payload, capOK, readOK)
      [] h = "mute" -> handleMuteCommand(topic, payload, capOK, readOK)
      [] h = "system" -> handleSystemCommand(topic, payload, capOK)
      [] h = "display" -> handleDisplayBrightnessCommand(d, topic, payload, capOK)
      [] h = "shortcut" -> handleShortcutCommand(topic, payload, capOK)
      [] h = "keepawake" -> handleKeepAwakeCommand(topic, payload, capOK)
      [] h = "playpause" -> handlePlayPauseCommand(topic, payload, capOK, readOK)

\* listen, lines 1281-1319, from handler i on: the first handler that returns
\* true (or ends the process) is the last one to see the message.
RECURSIVE listenFrom(_, _, _, _, _, _)
listenFrom(i, d, topic, payload, capOK, readOK) ==
    IF i > Len(Handlers)
    THEN [seen |-> <<>>, consumedBy |-> "none", steps |-> <<>>, calls |-> <<>>,
          pubs |-> <<>>, fatal |-> FALSE]
    ELSE LET r == Handle(Handlers[i], d, topic, payload, capOK, readOK)
             rest == listenFrom(i + 1, d, topic, payload, capOK, readOK)
         IN  IF r.handled \/ r.fatal
             THEN [seen |-> <<Handlers[i]>>, consumedBy |-> Handlers[i],
                   steps |-> r.steps, calls |-> r.calls, pubs |-> r.pubs,
                   fatal |-> r.fatal]
             ELSE [rest EXCEPT !.seen = <<Handlers[i]>> \o rest.seen]

(***************************************************************************)
(* Inbound messages.  The subscription is {prefix}/command/#.              *)
(***************************************************************************)
\* The longest payload built from Alphabet.
MaxLen == 3

Alphabet == {"0", "1", "-", "a"}

Words ==
    { <<"t", "r", "u", "e">>,
      <<"f", "a", "l", "s", "e">>,
      <<"T", "r", "u", "e">>,
      <<"T", "R", "U", "E">>,
      <<"t">>,
      <<"T">>,
      <<"F", "a", "l", "s", "e">>,
      <<"F", "A", "L", "S", "E">>,
      <<"f">>,
      <<"F">>,
      <<"s", "l", "e", "e", "p">>,
      <<"d", "i", "s", "p", "l", "a", "y", "s", "l", "e", "e", "p">>,
      <<"d", "i", "s", "p", "l", "a", "y", "w", "a", "k", "e">>,
      <<"s", "h", "u", "t", "d", "o", "w", "n">>,
      <<"s", "c", "r", "e", "e", "n", "s", "a", "v", "e", "r">>,
      <<"S", "l", "e", "e", "p">>,
      <<"p", "l", "a", "y", "p", "a", "u", "s", "e">>,
      <<"M", "y", " ", "S", "h", "o", "r", "t", "c", "u", "t">>,
      <<"a", "_", "b", "-", "c">>,
      <<"a", "\n">>,
      <<"r", "m", ";", "x">>,
      <<"+", "5">>,
      <<"5", "0">>,
      <<"9">> }

RECURSIVE SeqsUpTo(_)
SeqsUpTo(n) ==
    IF n = 0 THEN {<<>>}
    ELSE LET shorter == SeqsUpTo(n - 1)
         IN  shorter \cup {Append(s, c) : s \in {t \in shorter : Len(t) = n - 1},
                                          c \in Alphabet}

Payloads == SeqsUpTo(MaxLen) \cup Words

BrightnessTopics ==
    {getTopicPrefix \o "/command/display_" \o id \o "_brightness" :
        id \in DisplayIDs \cup {"3"}}

Topics ==
    {getTopicPrefix \o "/command/" \o c :
        c \in {"volume", "mute", "set", "runshortcut", "keepawake", "playpause",
               "volumes", "other"}}
    \cup BrightnessTopics

NoMsg == [phase |-> "none", topic |-> "", payload |-> <<>>, seen |-> <<>>,
          consumedBy |-> "none", steps |-> <<>>, calls |-> <<>>, pubs |-> <<>>,
          fatal |-> FALSE]

\* No loop of handleDisplayBrightnessCommand is under way.
NotRanging == [busy |-> FALSE, list |-> <<>>, i |-> 0]

\* messagePubHandler, lines 1141-1143: the client hands over a message that
\* arrived on the subscription and the handler logs it.
messagePubHandler ==
    /\ pc = "loop"
    /\ connected
    /\ msg.phase = "none"
    /\ \E topic \in Topics, payload \in Payloads :
           msg' = [NoMsg EXCEPT !.phase = "received", !.topic = topic,
                                !.payload = payload]
    /\ UNCHANGED <<pc, connVars, displays, nextMsg, ranging, hndVars, subVars, lifeVars>>

\* listen on the message received: the whole dispatch, for each outcome of
\* the external commands it runs.
listen ==
    /\ pc = "loop"
    /\ msg.phase = "received"
    /\ \E capOK \in BOOLEAN, readOK \in BOOLEAN :
           LET r == listenFrom(1, displays, msg.topic, msg.payload, capOK, readOK)
           IN  /\ msg' = [phase |-> "handled", topic |-> msg.topic,
                          payload |-> msg.payload, seen |-> r.seen,
                          consumedBy |-> r.consumedBy, steps |-> r.steps,
                          calls |-> r.calls, pubs |-> r.pubs, fatal |-> r.fatal]
               /\ pc' = IF r.fatal THEN "exited" ELSE "loop"
               /\ retainedAlive' = IF r.fatal THEN BrokerStores(retainedAlive, Will)
                                    ELSE retainedAlive
    /\ UNCHANGED <<connVars, displays, nextMsg, ranging, handlerPending, connPubs, lastTick, tickPubs,
                   subVars, lifeVars>>

\* listen and messagePubHandler have returned.
HandlerReturns ==
    /\ pc = "loop"
    /\ msg.phase = "handled"
    /\ msg' = NoMsg
    /\ UNCHANGED <<pc, connVars, displays, nextMsg, ranging, hndVars, subVars, lifeVars>>

(***************************************************************************)
(* handleDisplayBrightnessCommand, step by step.  Nothing orders the       *)
(* goroutine of a message handler and the goroutines that run              *)
(* updateDisplayBrightness (the main loop, connectHandler): Application    *)
(* holds activityMutex and cpuMutex only (lines 121 and 126), and          *)
(* app.displays is read and written without either.                        *)
(***************************************************************************)
\* Lines 1381-1390 on a brightness topic, which the handlers before this
\* one return false on: the list is not empty, and the range statement of
\* line 1390 evaluates app.displays once.
RangeBegins ==
    /\ pc = "loop"
    /\ msg.phase = "received"
    /\ msg.topic \in BrightnessTopics
    /\ Len(displays) > 0
    /\ ~ranging.busy
    /\ ranging' = [busy |-> TRUE, list |-> displays, i |-> 1]
    /\ msg' = [msg EXCEPT !.phase = "ranging"]
    /\ UNCHANGED <<pc, connVars, displays, nextMsg, hndVars, subVars, lifeVars>>

\* One iteration of the loop of lines 1390-1412 over the slice it ranges
\* over: the next element when the topic is not this display's, otherwise
\* the body and its return; after the last element line 1413 returns false
\* and listen goes on with the handlers that follow.
RangeStep ==
    /\ pc = "loop"
    /\ ranging.busy
    /\ LET d == ranging.list
           i == ranging.i
       IN  IF /\ i <= Len(d)
              /\ msg.topic # getTopicPrefix \o "/command/display_" \o d[i] \o "_brightness"
           THEN /\ ranging' = [ranging EXCEPT !.i = i + 1]
                /\ UNCHANGED <<pc, msg, retainedAlive>>
           ELSE /\ ranging' = NotRanging
                /\ \E capOK \in BOOLEAN, readOK \in BOOLEAN :
                       LET r == listenFrom(1, d, msg.topic, msg.payload, capOK, readOK)
                       IN  /\ msg' = [phase |-> "handled", topic |-> msg.topic,
                                      payload |-> msg.payload, seen |-> r.seen,
                                      consumedBy |-> r.consumedBy, steps |-> r.steps,
                                      calls |-> r.calls, pubs |-> r.pubs,
                                      fatal |-> r.fatal]
                           /\ pc' = IF r.fatal THEN "exited" ELSE "loop"
                           /\ retainedAlive' =
                                  IF r.fatal THEN BrokerStores(retainedAlive, Will)
                                  ELSE retainedAlive
    /\ UNCHANGED <<connVars, displays, nextMsg, handlerPending, connPubs, lastTick,
                   tickPubs, subVars, lifeVars>>

(***************************************************************************)
(* The client's dispatch.  getMQTTClientWithRetry sets                     *)
(* opts.SetOrderMatters(false), line 1253: the client then calls the       *)
(* handler of every inbound message in a goroutine of its own and does not *)
(* wait for the handler of the message before.  nextMsg is such a message: *)
(* a volume command that arrives while the handler of msg runs.            *)
(***************************************************************************)
\* The levels of the volume command that arrives second.
NextLevels == {<<"9">>, <<"5", "0">>}

\* messagePubHandler in a second goroutine: the handler of msg has not
\* returned.
messagePubHandlerNext ==
    /\ pc = "loop"
    /\ connected
    /\ msg.phase # "none"
    /\ nextMsg.phase = "none"
    /\ \E payload \in NextLevels :
           nextMsg' = [NoMsg EXCEPT !.phase = "received",
                                    !.topic = getTopicPrefix \o "/command/volume",
                                    !.payload = payload]
    /\ UNCHANGED <<pc, connVars, displays, msg, ranging, hndVars, subVars, lifeVars>>

\* listen on the second message.
listenNext ==
    /\ pc = "loop"
    /\ nextMsg.phase = "received"
    /\ \E capOK \in BOOLEAN, readOK \in BOOLEAN :
           LET r == listenFrom(1, displays, nextMsg.topic, nextMsg.payload, capOK,
                               readOK)
           IN  /\ nextMsg' = [phase |-> "handled", topic |-> nextMsg.topic,
                              payload |-> nextMsg.payload, seen |-> r.seen,
                              consumedBy |-> r.consumedBy, steps |-> r.steps,
                              calls |-> r.calls, pubs |-> r.pubs, fatal |-> r.fatal]
               /\ pc' = IF r.fatal THEN "exited" ELSE "loop"
               /\ retainedAlive' = IF r.fatal THEN BrokerStores(retainedAlive, Will)
                                    ELSE retainedAlive
    /\ UNCHANGED <<connVars, displays, msg, ranging, handlerPending, connPubs, lastTick, tickPubs,
                   subVars, lifeVars>>

\* The handler of the second message has returned.
NextHandlerReturns ==
    /\ pc = "loop"
    /\ nextMsg.phase = "handled"
    /\ nextMsg' = NoMsg
    /\ UNCHANGED <<pc, connVars, displays, msg, ranging, hndVars, subVars, lifeVars>>

(***************************************************************************)
(* CPU usage, lines 1565-1606.  A sample holds the eight cumulative        *)
(* counters of sigar.Cpu.  The counters are unsigned 64-bit words; the     *)
(* model computes with words of CounterBits bits, which wrap the same way. *)
(***************************************************************************)
CounterBits == 4

\* The highest counter value of a sample.
MaxTicks == 2

RECURSIVE Pow2(_)
Pow2(k) == IF k = 0 THEN 1 ELSE 2 * Pow2(k - 1)

Modulus == Pow2(CounterBits)

\* Unsigned subtraction and addition of counters.
USub(a, b) == (a - b + Modulus) % Modulus

UAdd(a, b) == (a + b) % Modulus

CPUSamples ==
    [User : 0..MaxTicks, Sys : {0}, Idle : 0..MaxTicks, Wait : {0, 1},
     Nice : {0}, Irq : {0}, SoftIrq : {0}, Stolen : {0, 1}]

\* A float64 value, kept as the quotient it was computed from.
Frac(n, d) == [num |-> n, den |-> d]

CPUUsage(used, free) == [err |-> FALSE, UsedPercent |-> used, FreePercent |-> free]

CPUError == [err |-> TRUE, UsedPercent |-> Frac(0, 1), FreePercent |-> Frac(0, 1)]

\* Lines 1575-1585: the deltas and their total.
idleDelta(cpu, last) == USub(cpu.Idle, last.Idle)

totalDelta(cpu, last) ==
    UAdd(UAdd(UAdd(UAdd(UAdd(UAdd(UAdd(USub(cpu.User, last.User),
                                       USub(cpu.Sys, last.Sys)),
                                  idleDelta(cpu, last)),
                             USub(cpu.Wait, last.Wait)),
                        USub(cpu.Nice, last.Nice)),
                   USub(cpu.Irq, last.Irq)),
              USub(cpu.SoftIrq, last.SoftIrq)),
         USub(cpu.Stolen, last.Stolen))

\* The percentages computed without the test for a zero total.
CPUPercentages_Unchecked(cpu, last) ==
    CPUUsage(Frac(100 * totalDelta(cpu, last) - idleDelta(cpu, last) * 100,
                  totalDelta(cpu, last)),
             Frac(idleDelta(cpu, last) * 100, totalDelta(cpu, last)))

\* Lines 1590-1605: idlePercent = idleDelta / totalDelta * 100 and
\* usedPercent = 100 - idlePercent, or 0 and 100 when the total is zero.
CPUPercentages(cpu, last) ==
    IF totalDelta(cpu, last) = 0
    THEN CPUUsage(Frac(0, 1), Frac(100, 1))
    ELSE CPUUsage(Frac(100 * totalDelta(cpu, last) - idleDelta(cpu, last) * 100,
                       totalDelta(cpu, last)),
                  Frac(idleDelta(cpu, last) * 100, totalDelta(cpu, last)))

NoCPUCall == [called |-> FALSE, sample |-> [User |-> 0, Sys |-> 0, Idle |-> 0,
                                            Wait |-> 0, Nice |-> 0, Irq |-> 0,
                                            SoftIrq |-> 0, Stolen |-> 0],
              prev |-> [User |-> 0, Sys |-> 0, Idle |-> 0, Wait |-> 0, Nice |-> 0,
                        Irq |-> 0, SoftIrq |-> 0, Stolen |-> 0],
              result |-> CPUError]

\* getCPUUsage: cpu.Get() reads the sample (readOK: without an error), then,
\* under cpuMutex, the deltas are taken, the sample is stored and the
\* percentages are returned.
getCPUUsage ==
    /\ \E cpu \in CPUSamples, readOK \in BOOLEAN :
           IF ~readOK
           THEN /\ cpuCall' = [called |-> TRUE, sample |-> cpu, prev |-> lastCPU,
                               result |-> CPUError]
                /\ UNCHANGED lastCPU
           ELSE /\ cpuCall' = [called |-> TRUE, sample |-> cpu, prev |-> lastCPU,
                               result |-> CPUPercentages(cpu, lastCPU)]
                /\ lastCPU' = cpu
    /\ UNCHANGED <<pc, connVars, cmdVars, hndVars, cfgVars, actVars, mediaVars,
                   lifeVars>>

\* NewApplication, line 229: app.lastCPU.Get() at construction.
CPUIdle ==
    /\ lastCPU = [User |-> 0, Sys |-> 0, Idle |-> 0, Wait |-> 0, Nice |-> 0,
                  Irq |-> 0, SoftIrq |-> 0, Stolen |-> 0]
    /\ cpuCall = NoCPUCall

(***************************************************************************)
(* The user activity monitor, lines 957-1074.  Time is counted in          *)
(* sampling intervals of the poller's ticker.                              *)
(***************************************************************************)
\* idle_activity_time of mac2mqtt.yaml, in seconds.
IdleActivityTime == 3

\* The value of config.IdleActivityTime when the file has no
\* idle_activity_time: the zero value of int, line 138.
NotSpecified == 0

\* getConfig, lines 164-167, for idle_activity_time: the value read from the
\* file; for a file without it the function writes a log line and assigns
\* nothing.
getConfig(idleActivityTime) == idleActivityTime

\* The largest idle time, in seconds, that a sample reports.
MaxIdle == 8

\* time.NewTicker(500 * time.Millisecond): ticks in a second.
TicksPerSecond == 2

\* The floor of line 1062, in seconds.
ActivityFloor == 2

\* time.Duration(app.config.IdleActivityTime) * time.Second, in intervals.
Threshold == configIdleActivityTime * TicksPerSecond

NoTimer == [state |-> "nil", left |-> 0]

\* time.AfterFunc(d, f): a timer that has all of d left.
NewTimer == [state |-> "armed", left |-> Threshold]

\* A reset that leaves the stored timer running.
resetActivityTimer_NoStop(cur, timer, isConnected) ==
    [state |-> "active",
     pubs |-> IF cur # "active" /\ isConnected THEN <<"active">> ELSE <<>>,
     stopped |-> 0,
     timer |-> NewTimer]

\* resetActivityTimer, lines 972-993, with the stored timer: active at once,
\* the stored timer stopped and a new one stored, all under the activity
\* lock.  Stop takes a timer that is armed out of the runtime's timers and
\* has no effect on one that has expired: its callback has been started and
\* runs.
resetActivityTimer(cur, timer, isConnected) ==
    [state |-> "active",
     pubs |-> IF cur # "active" /\ isConnected THEN <<"active">> ELSE <<>>,
     stopped |-> IF timer.state = "armed" THEN 1 ELSE 0,
     timer |-> NewTimer]

\* A test that also fires on an unchanged sample.
ActivityTrigger_OrEqual(idleTime, last) == idleTime <= last \/ idleTime < ActivityFloor

\* Line 1062: if idleTime < lastIdleTime || idleTime < 2.
ActivityTrigger(idleTime, last) == idleTime < last \/ idleTime < ActivityFloor

NoActStep == [op |-> "none", sampled |-> FALSE, idle |-> -1, prevIdle |-> -1,
              prevState |-> "inactive", pubs |-> <<>>]

\* case <-ticker.C of a poller, lines 1045-1068.  readOK: ioreg ran and its
\* output held HIDIdleTime.  A poller whose context is cancelled takes this
\* case too when its ticker has fired: select picks among the ready cases.
MonitorTick ==
    /\ \E p \in DOMAIN pollers :
          /\ pollers[p].due
          /\ \E idleTime \in 0..MaxIdle, readOK \in BOOLEAN :
                IF client = "nil" \/ ~connected \/ ~readOK
                THEN /\ pollers' = [pollers EXCEPT ![p].due = FALSE]
                     /\ actLast' = [NoActStep EXCEPT !.op = "tick",
                                                     !.prevIdle = pollers[p].last,
                                                     !.prevState = userActivityState]
                     /\ UNCHANGED <<userActivityState, lastActivityPub, activityTimer,
                                    sinceTrigger, inactiveAt, pendingTimers>>
                ELSE LET r == resetActivityTimer(userActivityState, activityTimer,
                                                 connected)
                         hit == ActivityTrigger(idleTime, pollers[p].last)
                     IN  /\ userActivityState' = IF hit THEN r.state
                                                 ELSE userActivityState
                         /\ lastActivityPub' =
                                IF hit THEN ActivityPubAfter(lastActivityPub, r.pubs)
                                ELSE lastActivityPub
                         /\ activityTimer' = IF hit THEN r.timer ELSE activityTimer
                         /\ pendingTimers' = IF hit
                                             THEN pendingTimers - r.stopped + 1
                                             ELSE pendingTimers
                         /\ sinceTrigger' = IF hit THEN 0 ELSE sinceTrigger
                         /\ inactiveAt' = IF hit THEN <<>> ELSE inactiveAt
                         /\ pollers' = [pollers EXCEPT ![p].due = FALSE,
                                                       ![p].last = idleTime]
                         /\ actLast' = [op |-> "tick", sampled |-> TRUE,
                                        idle |-> idleTime,
                                        prevIdle |-> pollers[p].last,
                                        prevState |-> userActivityState,
                                        pubs |-> (IF hit THEN r.pubs ELSE <<>>)
                                                     \o <<"idle_time_seconds">>]
    /\ UNCHANGED <<pc, connVars, cmdVars, hndVars, cfgVars, cpuVars, mediaVars, callbacks,
                   connections, mediaControl, readers>>

\* case <-ctx.Done() of a poller, lines 1047-1049: the poller returns.
PollerStops ==
    /\ Alive
    /\ \E p \in DOMAIN pollers :
          /\ pollers[p].ctx = "cancelled"
          /\ pollers' = SubSeq(pollers, 1, p - 1) \o SubSeq(pollers, p + 1, Len(pollers))
    /\ UNCHANGED <<pc, connVars, cmdVars, hndVars, subVars, connections,
                   mediaControl, readers>>

\* The stored timer expires: the runtime starts its callback in a goroutine
\* of its own.
TimerFires ==
    /\ activityTimer.state = "armed"
    /\ activityTimer.left = 0
    /\ activityTimer' = [state |-> "fired", left |-> 0]
    /\ pendingTimers' = pendingTimers - 1
    /\ callbacks' = callbacks + 1
    /\ UNCHANGED <<pc, connVars, cmdVars, hndVars, cfgVars, cpuVars, mediaVars, lifeVars,
                   userActivityState, lastActivityPub, sinceTrigger, inactiveAt,
                   actLast>>

\* The callback of line 990 runs: app.setUserActivityState(client, "inactive").
TimerCallback ==
    /\ callbacks > 0
    /\ callbacks' = callbacks - 1
    /\ LET r == setUserActivityState(userActivityState, "inactive",
                                     client # "nil" /\ connected)
       IN  /\ userActivityState' = r.state
           /\ lastActivityPub' = ActivityPubAfter(lastActivityPub, r.pubs)
           /\ inactiveAt' = IF r.state # userActivityState
                            THEN Append(inactiveAt, sinceTrigger)
                            ELSE inactiveAt
           /\ actLast' = [NoActStep EXCEPT !.op = "callback",
                                           !.prevState = userActivityState,
                                           !.pubs = r.pubs]
    /\ UNCHANGED <<pc, connVars, cmdVars, hndVars, cfgVars, cpuVars, mediaVars, lifeVars,
                   activityTimer, sinceTrigger, pendingTimers>>

\* One sampling interval passes: the ticker of every poller fires and the
\* armed timer has that much less left.  What fell due in the interval
\* before has happened.
Advance ==
    /\ \A p \in DOMAIN pollers : ~pollers[p].due
    /\ callbacks = 0
    /\ ~(activityTimer.state = "armed" /\ activityTimer.left = 0)
    /\ pollers' = [p \in DOMAIN pollers |-> [pollers[p] EXCEPT !.due = TRUE]]
    /\ activityTimer' = IF activityTimer.state = "armed"
                        THEN [activityTimer EXCEPT !.left = activityTimer.left - 1]
                        ELSE activityTimer
    /\ sinceTrigger' = IF sinceTrigger >= 0 /\ sinceTrigger <= Threshold
                       THEN sinceTrigger + 1
                       ELSE sinceTrigger
    /\ UNCHANGED <<pc, connVars, cmdVars, hndVars, cfgVars, cpuVars, mediaVars,
                   userActivityState, lastActivityPub, callbacks, inactiveAt,
                   actLast, pendingTimers, connections, mediaControl, readers>>

\* NewApplication, lines 225-226: inactive, no timer.
ActIdle ==
    /\ configIdleActivityTime = getConfig(IdleActivityTime)
    /\ userActivityState = "inactive"
    /\ lastActivityPub = "none"
    /\ activityTimer = NoTimer
    /\ callbacks = 0
    /\ sinceTrigger = -1
    /\ inactiveAt = <<>>
    /\ actLast = NoActStep
    /\ pendingTimers = 0

(***************************************************************************)
(* The media stream, lines 792-948.  A line of the feed is empty, is not   *)
(* JSON, is a JSON object without a payload object, or is an event with a  *)
(* payload: a map from keys to JSON values.                                *)
(***************************************************************************)
\* The lines the reader takes from the feed before the feed ends.
MaxLines == 2

\* JSON values as encoding/json decodes them into interface{}: a string, a
\* bool, or a float64 (kept as the quotient num/den, never negative here).
StrV(x) == [t |-> "string", s |-> x, b |-> FALSE, num |-> 0, den |-> 1]

BoolV(x) == [t |-> "bool", s |-> "", b |-> x, num |-> 0, den |-> 1]

NumV(n, d) == [t |-> "number", s |-> "", b |-> FALSE, num |-> n, den |-> d]

\* int(f): the fraction is dropped.
ToInt(v) == v.num \div v.den

\* int(f / 1000000).
MicrosToInt(v) == v.num \div (v.den * 1000000)

MediaInfo(title, artist, album, appName, state, duration, position) ==
    [Title |-> title, Artist |-> artist, Album |-> album, AppName |-> appName,
     AppBundleID |-> "", State |-> state, Duration |-> duration,
     Position |-> position]

\* MediaInfo{State: "idle"}, lines 219 and 222.
IdleMedia == MediaInfo("", "", "", "", "idle", 0, 0)

\* A merge that takes a new title for a new track and clears the artist.
MergeKey_TitleClearsArtist(m, k, v) ==
    CASE k = "title" /\ v.t = "string" -> [m EXCEPT !.Title = v.s, !.Artist = ""]
      [] k = "artist" /\ v.t = "string" -> [m EXCEPT !.Artist = v.s]
      [] k = "album" /\ v.t = "string" -> [m EXCEPT !.Album = v.s]
      [] k \in {"appName", "bundleIdentifier"} /\ v.t = "string" ->
             [m EXCEPT !.AppName = v.s]
      [] k = "playing" /\ v.t = "bool" ->
             [m EXCEPT !.State = IF v.b THEN "playing" ELSE "paused"]
      [] k \in {"duration", "totalTime", "totalDuration"} /\ v.t = "number" ->
             [m EXCEPT !.Duration = ToInt(v)]
      [] k = "durationMicros" /\ v.t = "number" ->
             [m EXCEPT !.Duration = MicrosToInt(v)]
      [] k \in {"elapsedTime", "position"} /\ v.t = "number" ->
             [m EXCEPT !.Position = ToInt(v)]
      [] k = "positionMicros" /\ v.t = "number" ->
             [m EXCEPT !.Position = MicrosToInt(v)]
      [] OTHER -> m

\* One pass of the switch of lines 867-924 for key k with value v.
MergeKey(m, k, v) ==
    CASE k = "title" /\ v.t = "string" -> [m EXCEPT !.Title = v.s]
      [] k = "artist" /\ v.t = "string" -> [m EXCEPT !.Artist = v.s]
      [] k = "album" /\ v.t = "string" -> [m EXCEPT !.Album = v.s]
      [] k \in {"appName", "bundleIdentifier"} /\ v.t = "string" ->
             [m EXCEPT !.AppName = v.s]
      [] k = "playing" /\ v.t = "bool" ->
             [m EXCEPT !.State = IF v.b THEN "playing" ELSE "paused"]
      [] k \in {"duration", "totalTime", "totalDuration"} /\ v.t = "number" ->
             [m EXCEPT !.Duration = ToInt(v)]
      [] k = "durationMicros" /\ v.t = "number" ->
             [m EXCEPT !.Duration = MicrosToInt(v)]
      [] k \in {"elapsedTime", "position"} /\ v.t = "number" ->
             [m EXCEPT !.Position = ToInt(v)]
      [] k = "positionMicros" /\ v.t = "number" ->
             [m EXCEPT !.Position = MicrosToInt(v)]
      [] OTHER -> m

\* for k, v := range payload: the keys come in the order the map yields
\* them, which Go leaves open.
RECURSIVE MergeAll(_, _, _, _)
MergeAll(m, payload, order, i) ==
    IF i > Len(order) THEN m
    ELSE MergeAll(MergeKey(m, order[i], payload[order[i]]), payload, order, i + 1)

\* Lines 926-932.
PlayingFalse(m, payload) ==
    IF "playing" \in DOMAIN payload /\ payload["playing"].t = "bool"
       /\ ~payload["playing"].b
    THEN [m EXCEPT !.State = "idle"]
    ELSE m

\* Lines 934-946: the state, then the attributes.
MediaPubs(m) ==
    <<[topic |-> getTopicPrefix \o "/status/now_playing", retained |-> FALSE,
       state |-> m.State, attr |-> <<>>],
      [topic |-> getTopicPrefix \o "/status/now_playing_attr", retained |-> FALSE,
       state |-> m.State,
       attr |-> <<m.Title, m.Artist, m.Album, m.AppName, m.Duration, m.Position>>]>>

\* processMediaStreamUpdate for an event with a payload object: the media
\* state after it.
processMediaStreamUpdate(m, payload, order) ==
    PlayingFalse(MergeAll(m, payload, order, 1), payload)

\* The keys the switch knows, and one it does not.
StringKeys == {"title", "artist", "album", "appName", "bundleIdentifier"}

NumberKeys == {"duration", "durationMicros", "totalTime", "totalDuration",
               "elapsedTime", "position", "positionMicros"}

MediaKeys == StringKeys \cup NumberKeys \cup {"playing", "genre"}

\* The values a key comes with: two of its own type and one of another.
ValuesFor(k) ==
    IF k \in StringKeys \cup {"genre"} THEN {StrV("X"), StrV("Y"), NumV(7, 1)}
    ELSE IF k = "playing" THEN {BoolV(TRUE), BoolV(FALSE), StrV("X")}
    ELSE {NumV(7, 2), NumV(2500000, 1), StrV("X")}

AllValues == UNION {ValuesFor(k) : k \in MediaKeys}

\* The key sets of the payloads: none, every single key, and pairs.
KeySets ==
    {{}} \cup {{k} : k \in MediaKeys}
    \cup {{"appName", "bundleIdentifier"}, {"duration", "durationMicros"},
          {"elapsedTime", "positionMicros"}, {"title", "artist"},
          {"playing", "title"}, {"playing", "duration"}, {"title", "genre"}}

MediaPayloads ==
    UNION {{f \in [S -> AllValues] : \A k \in S : f[k] \in ValuesFor(k)} : S \in KeySets}

\* The orders in which range can yield the keys of a payload.
KeyOrders(payload) ==
    {o \in [1..Cardinality(DOMAIN payload) -> DOMAIN payload] :
        \A k \in DOMAIN payload : \E i \in DOMAIN o : o[i] = k}

NoPayload == [k \in {} |-> StrV("")]

NoMediaEvent == [kind |-> "none", payload |-> NoPayload, order |-> <<>>,
                 prior |-> IdleMedia, merged |-> FALSE, pubs |-> <<>>,
                 after |-> "none", online |-> FALSE]

\* A loop that gives up at the first line it cannot parse.
ReadersAfterLine_EndOnError(r, kind) ==
    IF kind = "garbage"
    THEN [running |-> r.running - 1, ended |-> r.ended + 1]
    ELSE r

\* What the line a reader took leaves of the readers r: the loop goes on to
\* the next line whatever the line was (the continue statements of lines 830
\* and 837, the return of line 862, the end of the loop's body).
ReadersAfterLine(r, kind) == r

\* One turn of a reader's loop, lines 827-844, and the call of
\* processMediaStreamUpdate it makes: a line of kind "empty" or "garbage" is
\* skipped, an event is processed only while the client is connected, an
\* event without a payload object is dropped at line 860.
StreamLine ==
    /\ Alive
    /\ readers.running > 0
    /\ linesRead < MaxLines
    /\ linesRead' = linesRead + 1
    /\ \/ /\ \E kind \in {"empty", "garbage", "nopayload"} :
                  /\ mediaEvent' = [NoMediaEvent EXCEPT
                                        !.kind = kind,
                                        !.prior = currentMediaState,
                                        !.after = mediaEvent.kind,
                                        !.online = (client # "nil" /\ connected)]
                  /\ readers' = ReadersAfterLine(readers, kind)
          /\ UNCHANGED currentMediaState
       \/ /\ \E payload \in MediaPayloads :
                \E order \in KeyOrders(payload) :
                   IF client # "nil" /\ connected
                   THEN LET m == processMediaStreamUpdate(currentMediaState,
                                                          payload, order)
                        IN  /\ currentMediaState' = m
                            /\ mediaEvent' = [kind |-> "event", payload |-> payload,
                                              order |-> order,
                                              prior |-> currentMediaState,
                                              merged |-> TRUE, pubs |-> MediaPubs(m),
                                              after |-> mediaEvent.kind,
                                              online |-> TRUE]
                   ELSE /\ mediaEvent' = [NoMediaEvent EXCEPT
                                              !.kind = "event", !.payload = payload,
                                              !.order = order,
                                              !.prior = currentMediaState,
                                              !.after = mediaEvent.kind]
                        /\ UNCHANGED currentMediaState
          /\ readers' = ReadersAfterLine(readers, "event")
    /\ UNCHANGED <<pc, connVars, cmdVars, hndVars, cfgVars, cpuVars, actVars, connections,
                   mediaControl, pollers, updates>>

\* The feed of a reader ends or cannot be read (the loop of line 827 ends,
\* lines 846-849): the reader returns.
StreamEnds ==
    /\ Alive
    /\ readers.running > 0
    /\ readers' = [running |-> readers.running - 1, ended |-> readers.ended + 1]
    /\ UNCHANGED <<pc, connVars, cmdVars, hndVars, subVars, connections,
                   mediaControl, pollers>>

(***************************************************************************)
(* processMediaStreamUpdate step by step.  The function takes no lock and  *)
(* Application has no lock for the media state (lines 113-127): the        *)
(* readers that run at the same time each execute it, one pass of the      *)
(* switch after the other, on the same app.currentMediaState.              *)
(***************************************************************************)
\* The readers that Run's setup and connectHandler start on the first
\* connection.
ReaderSlots == {1, 2}

NoUpdate == [busy |-> FALSE, payload |-> NoPayload, order |-> <<>>, done |-> 0]

NoUpdates == [r \in ReaderSlots |-> NoUpdate]

\* The events of a track change: title and artist together.
TrackPayloads ==
    {p \in MediaPayloads :
        /\ DOMAIN p = {"title", "artist"}
        /\ p["title"].t = "string"
        /\ p["artist"] = p["title"]}

\* Line 841 and lines 856-863: reader r calls processMediaStreamUpdate on an
\* event with a payload object.
UpdateBegins ==
    /\ Alive
    /\ client # "nil" /\ connected
    /\ \E r \in ReaderSlots :
          /\ r <= readers.running
          /\ ~updates[r].busy
          /\ \E payload \in TrackPayloads :
                \E order \in KeyOrders(payload) :
                   updates' = [updates EXCEPT ![r] = [busy |-> TRUE,
                                                     payload |-> payload,
                                                     order |-> order, done |-> 0]]
    /\ UNCHANGED <<pc, connVars, cmdVars, hndVars, cfgVars, cpuVars, actVars, lifeVars,
                   currentMediaState, linesRead, mediaEvent>>

\* One pass of the loop of line 866 in the execution of reader r.
UpdateMergesKey ==
    /\ \E r \in ReaderSlots :
          /\ updates[r].busy
          /\ updates[r].done < Len(updates[r].order)
          /\ LET k == updates[r].order[updates[r].done + 1]
             IN  currentMediaState' =
                     MergeKey(currentMediaState, k, updates[r].payload[k])
          /\ updates' = [updates EXCEPT ![r].done = updates[r].done + 1]
    /\ UNCHANGED <<pc, connVars, cmdVars, hndVars, cfgVars, cpuVars, actVars, lifeVars,
                   linesRead, mediaEvent>>

\* Lines 926-947 in the execution of reader r: the test of playing, the two
\* publishes of the state as it is now, and the return.
UpdatePublishes ==
    /\ \E r \in ReaderSlots :
          /\ updates[r].busy
          /\ updates[r].done = Len(updates[r].order)
          /\ LET m == PlayingFalse(currentMediaState, updates[r].payload)
             IN  /\ currentMediaState' = m
                 /\ mediaEvent' = [kind |-> "event", payload |-> updates[r].payload,
                                   order |-> updates[r].order,
                                   prior |-> currentMediaState,
                                   merged |-> TRUE, pubs |-> MediaPubs(m),
                                   after |-> mediaEvent.kind, online |-> TRUE]
          /\ updates' = [updates EXCEPT ![r] = NoUpdate]
    /\ UNCHANGED <<pc, connVars, cmdVars, hndVars, cfgVars, cpuVars, actVars, lifeVars,
                   linesRead>>

\* NewApplication, lines 213-223, without Media Control or without a track.
MediaIdle ==
    /\ currentMediaState = IdleMedia
    /\ linesRead = 0
    /\ updates = NoUpdates
    /\ mediaEvent = NoMediaEvent

(***************************************************************************)
(* The specification of Run.                                               *)
(***************************************************************************)
Init ==
    /\ pc = "start"
    /\ brokerReachable \in BOOLEAN
    /\ configSSL \in BOOLEAN
    /\ client = "nil"
    /\ connected = FALSE
    /\ retryCount = 0
    /\ cycleLog = <<>>
    /\ cycleResult = "none"
    /\ networkReachable = TRUE
    /\ lastConnectionState = FALSE
    /\ reconnectRequested = FALSE
    /\ lastPub = <<>>
    /\ displays = <<>>
    /\ ranging = NotRanging
    /\ msg = NoMsg
    /\ nextMsg = NoMsg
    /\ handlerPending = FALSE
    /\ connPubs = <<>>
    /\ retainedAlive \in {"none", "online", "offline"}
    /\ lastTick = "none"
    /\ tickPubs = {}
    /\ CPUIdle
    /\ ActIdle
    /\ MediaIdle
    /\ connections = 0
    /\ mediaControl \in BOOLEAN
    /\ readers = NoReaders
    /\ pollers = <<>>

RunStep ==
    \/ getMQTTClient
    \/ CycleProbe
    \/ \E ok \in BOOLEAN : CycleHandshake(ok)
    \/ RunConnectFailed
    \/ \E capOK \in BOOLEAN : RunSetup(capOK)
    \/ \E capOK \in BOOLEAN : VolumeTick(capOK)
    \/ \E capOK \in BOOLEAN : BatteryTick(capOK)
    \/ AwakeTick
    \/ NetworkCheckTick

Next ==
    \/ RunStep
    \/ BrokerChange
    \/ ConnectionLost
    \/ AutoReconnect
    \/ \E capOK \in BOOLEAN : connectHandler(capOK)

Spec == Init /\ [][Next]_vars

\* Go runs a runnable goroutine: Run takes its next step whenever it has one.
\* Nothing is assumed of the broker.
FairSpec == Spec /\ WF_vars(RunStep)

\* The three tickers of the publication classes keep firing and the select
\* of the main loop takes each case that stays ready.
FairTicks ==
    /\ Spec
    /\ WF_vars(RunStep)
    /\ WF_vars(\E capOK \in BOOLEAN : VolumeTick(capOK))
    /\ WF_vars(\E capOK \in BOOLEAN : BatteryTick(capOK))
    /\ WF_vars(AwakeTick)

(***************************************************************************)
(* The specification of the command router: the main loop is running on a  *)
(* connected client (a state Spec reaches) and messages arrive.            *)
(***************************************************************************)
ConnectedLoop ==
    /\ pc = "loop"
    /\ brokerReachable = TRUE
    /\ configSSL = FALSE
    /\ client = "client"
    /\ connected = TRUE
    /\ retryCount = 0
    /\ cycleLog = <<"probe_ok", "hs_tcp_ok">>
    /\ cycleResult = "ok"
    /\ networkReachable = TRUE
    /\ lastConnectionState = TRUE
    /\ reconnectRequested = FALSE
    /\ lastPub = InitialBurst
    /\ handlerPending = FALSE
    /\ connPubs = By("handler", connectHandlerSteps) \o By("run", InitialBurst)
    /\ retainedAlive = "online"
    /\ lastTick = "none"
    /\ tickPubs = {}
    /\ connections = 1

\* The feeds of a host without media-control once the main loop runs: no
\* reader, and the poller started last (the one started before it has
\* returned).
QuietFeeds ==
    /\ mediaControl = FALSE
    /\ readers = NoReaders
    /\ pollers = <<NewPoller>>

InitCmd ==
    /\ ConnectedLoop
    /\ displays \in DisplayLists
    /\ ranging = NotRanging
    /\ msg = NoMsg
    /\ nextMsg = NoMsg
    /\ CPUIdle
    /\ ActIdle
    /\ MediaIdle
    /\ QuietFeeds

NextCmd ==
    \/ messagePubHandler
    \/ listen
    \/ HandlerReturns

SpecCmd == InitCmd /\ [][NextCmd]_vars

(***************************************************************************)
(* The specification of the dispatch: the command router with one display  *)
(* and a second handler started by the client while the first one runs.    *)
(***************************************************************************)
InitDispatch ==
    /\ InitCmd
    /\ displays = <<"1">>

NextDispatch ==
    \/ NextCmd
    \/ messagePubHandlerNext
    \/ listenNext
    \/ NextHandlerReturns

SpecDispatch == InitDispatch /\ [][NextDispatch]_vars

(***************************************************************************)
(* The specification of the CPU sampling: getCPUUsage called again and     *)
(* again (by Run's initial setup and by every battery tick) on whatever    *)
(* the host's counters read.                                               *)
(***************************************************************************)
InitCPU ==
    /\ ConnectedLoop
    /\ displays = <<>>
    /\ ranging = NotRanging
    /\ msg = NoMsg
    /\ nextMsg = NoMsg
    /\ lastCPU \in CPUSamples
    /\ cpuCall = NoCPUCall
    /\ ActIdle
    /\ MediaIdle
    /\ QuietFeeds

NextCPU == getCPUUsage

SpecCPU == InitCPU /\ [][NextCPU]_vars

(***************************************************************************)
(* The specification of the activity monitor on a connected client: the    *)
(* poller started last, alone or with the poller started before it, whose  *)
(* context is cancelled and which has not returned yet.                    *)
(***************************************************************************)
InitAct ==
    /\ ConnectedLoop
    /\ displays = <<>>
    /\ ranging = NotRanging
    /\ msg = NoMsg
    /\ nextMsg = NoMsg
    /\ CPUIdle
    /\ ActIdle
    /\ MediaIdle
    /\ mediaControl = FALSE
    /\ readers = NoReaders
    /\ pollers \in {<<NewPoller>>,
                    <<[NewPoller EXCEPT !.ctx = "cancelled"], NewPoller>>}

NextAct ==
    \/ Advance
    \/ MonitorTick
    \/ PollerStops
    \/ TimerFires
    \/ TimerCallback

SpecAct == InitAct /\ [][NextAct]_vars

(***************************************************************************)
(* The specification of the activity monitor for a configuration file      *)
(* without idle_activity_time.                                             *)
(***************************************************************************)
InitActDefault ==
    /\ ConnectedLoop
    /\ displays = <<>>
    /\ ranging = NotRanging
    /\ msg = NoMsg
    /\ nextMsg = NoMsg
    /\ CPUIdle
    /\ configIdleActivityTime = getConfig(NotSpecified)
    /\ userActivityState = "inactive"
    /\ lastActivityPub = "none"
    /\ activityTimer = NoTimer
    /\ callbacks = 0
    /\ sinceTrigger = -1
    /\ inactiveAt = <<>>
    /\ actLast = NoActStep
    /\ pendingTimers = 0
    /\ MediaIdle
    /\ mediaControl = FALSE
    /\ readers = NoReaders
    /\ pollers \in {<<NewPoller>>,
                    <<[NewPoller EXCEPT !.ctx = "cancelled"], NewPoller>>}

SpecActDefault == InitActDefault /\ [][NextAct]_vars

(***************************************************************************)
(* The specification of the media stream: the readers that Run's setup and *)
(* connectHandler started on the first connection, the media state as      *)
(* NewApplication left it (idle, or what getMediaInfo reported), and a     *)
(* connection that can be lost while they read.                            *)
(***************************************************************************)
InitMedia ==
    /\ ConnectedLoop
    /\ displays = <<>>
    /\ ranging = NotRanging
    /\ msg = NoMsg
    /\ nextMsg = NoMsg
    /\ CPUIdle
    /\ ActIdle
    /\ currentMediaState \in
           {IdleMedia, MediaInfo("T0", "A0", "B0", "N0", "playing", 200, 10)}
    /\ linesRead = 0
    /\ updates = NoUpdates
    /\ mediaEvent = NoMediaEvent
    /\ mediaControl = TRUE
    /\ readers = [running |-> 2, ended |-> 0]
    /\ pollers = <<NewPoller>>

NextMedia ==
    \/ StreamLine
    \/ ConnectionLost

SpecMedia == InitMedia /\ [][NextMedia]_vars

(***************************************************************************)
(* The specification of the merge: the two readers of the first connection *)
(* executing processMediaStreamUpdate step by step.                        *)
(***************************************************************************)
NextMerge ==
    \/ UpdateBegins
    \/ UpdateMergesKey
    \/ UpdatePublishes

SpecMerge == InitMedia /\ [][NextMerge]_vars

(***************************************************************************)
(* The specification of the feeds' lifecycle: Run and the client as in     *)
(* Spec, and the readers and pollers they start coming to their end.       *)
(***************************************************************************)
(***************************************************************************)
(* The specification of the display list: the main loop is running on a    *)
(* connected client, BetterDisplay reported any of the lists at startup    *)
(* (NewApplication, line 211), and awake ticks and commands follow.        *)
(***************************************************************************)
NextDisplays ==
    \/ NextCmd
    \/ RangeBegins
    \/ RangeStep
    \/ AwakeTick

SpecDisplays == InitCmd /\ [][NextDisplays]_vars

NextFeeds ==
    \/ Next
    \/ StreamEnds
    \/ PollerStops

SpecFeeds == Init /\ [][NextFeeds]_vars

(***************************************************************************)
(* Offline start.                                                          *)
(***************************************************************************)
\* Run went on in offline mode: the cycle failed on its probe and the probe
\* of line 2233 failed too.
StartedOffline ==
    /\ cycleResult = "err_unreachable"
    /\ pc \notin {"run_err", "returned"}

\* C1: when the reachability probe of the initial connect cycle fails, Run
\* neither returns an error nor panics nor exits: it goes on to its main loop
\* and stays there, and no tick publishes while it is offline.
C1_OfflineStartKeepsRunning ==
    cycleResult = "err_unreachable" =>
        /\ pc \in {"run_err", "run_setup", "loop"}
        /\ lastPub = <<>>

\* C2: after a start in offline mode, once the broker is reachable for good
\* the process eventually holds a connected client in its main loop and a
\* tick has published.
C2_OfflineStartRecovers ==
    (<>StartedOffline /\ <>[]brokerReachable)
        => <>(pc = "loop" /\ client # "nil" /\ connected /\ lastPub # <<>>)

(***************************************************************************)
(* The connect cycle.                                                      *)
(***************************************************************************)
\* C9: in one connect cycle a failed encrypted handshake followed by a
\* successful unencrypted one is exactly one fallback and a successful cycle;
\* a failed unencrypted handshake ends the cycle with an error and nothing
\* after it; a cycle makes at most MaxRetryAttempts + 1 handshakes and at
\* most one fallback, and its retry count starts at 0 and counts the
\* fallbacks.
C9_FallbackOncePerCycle ==
    /\ Handshakes(cycleLog) <= MaxRetryAttempts + 1
    /\ Count(cycleLog, "fallback") <= 1
    /\ retryCount = Count(cycleLog, "fallback")
    /\ (Has(cycleLog, "hs_ssl_fail") /\ Has(cycleLog, "hs_tcp_ok")) =>
           /\ cycleResult = "ok"
           /\ Count(cycleLog, "fallback") = 1
           /\ Handshakes(cycleLog) = 2
    /\ Has(cycleLog, "hs_tcp_fail") =>
           /\ Last(cycleLog) = "hs_tcp_fail"
           /\ cycleResult = "err_handshake"

\* An encrypted handshake failed, the cycle fell back and the unencrypted
\* handshake succeeded.
C9_Witness ==
    /\ cycleLog = <<"probe_ok", "hs_ssl_fail", "fallback", "probe_ok", "hs_tcp_ok">>
    /\ cycleResult = "ok"
    /\ ~configSSL

\* The handshakes made after the fallback are all unencrypted.
TcpAfterFallback(log) ==
    \A i, j \in DOMAIN log :
        (log[i] = "fallback" /\ j > i) => log[j] \notin {"hs_ssl_ok", "hs_ssl_fail"}

\* C34: no step sets config.SSL from false to true, and once the cycle has
\* fallen back config.SSL is false, every handshake after the fallback is
\* unencrypted, and the client that reconnects is the one the unencrypted
\* handshake made.
C34_FallbackIsPermanent ==
    [][/\ ~configSSL => ~configSSL'
       /\ Has(cycleLog', "fallback") =>
              /\ ~configSSL'
              /\ TcpAfterFallback(cycleLog')
              /\ client' # "nil" => Last(cycleLog') = "hs_tcp_ok"]_vars

\* After a fallback the unencrypted connection was lost and the client has
\* reconnected.
C34_Witness ==
    /\ Has(cycleLog, "fallback")
    /\ Last(cycleLog) = "hs_tcp_ok"
    /\ connections >= 2
    /\ connected
    /\ ~configSSL

\* C10: every handshake of a connect cycle comes right after a successful
\* reachability probe; a failed probe ends the cycle at once with an error,
\* no handshake follows it and app.client keeps its value; app.client is
\* set only by a successful handshake.
C10_ProbeBeforeHandshake ==
    /\ \A i \in DOMAIN cycleLog :
           cycleLog[i] \in HandshakeEvents => (i > 1 /\ cycleLog[i - 1] = "probe_ok")
    /\ Has(cycleLog, "probe_fail") =>
           /\ Last(cycleLog) = "probe_fail"
           /\ cycleResult = "err_unreachable"
           /\ client = "nil"
    /\ cycleResult = "err_unreachable" => Has(cycleLog, "probe_fail")
    /\ client # "nil" => (Has(cycleLog, "hs_ssl_ok") \/ Has(cycleLog, "hs_tcp_ok"))

\* The probe of the retry failed after an encrypted handshake had failed.
C10_Witness ==
    /\ cycleLog = <<"probe_ok", "hs_ssl_fail", "fallback", "probe_fail">>
    /\ cycleResult = "err_unreachable"
    /\ client = "nil"

(***************************************************************************)
(* The command router.                                                     *)
(***************************************************************************)
VolumeTopic == getTopicPrefix \o "/command/volume"

MuteTopic == getTopicPrefix \o "/command/mute"

SetTopic == getTopicPrefix \o "/command/set"

ShortcutTopic == getTopicPrefix \o "/command/runshortcut"

KeepAwakeTopic == getTopicPrefix \o "/command/keepawake"

PlayPauseTopic == getTopicPrefix \o "/command/playpause"

HasCall(cap) == \E i \in DOMAIN msg.calls : msg.calls[i].cap = cap

\* An integer string: an optional sign and at least one decimal digit.
IsIntegerString(s) ==
    /\ Len(s) >= 1
    /\ LET first == IF s[1] \in {"-", "+"} THEN 2 ELSE 1
       IN  /\ first <= Len(s)
           /\ \A i \in first..Len(s) : s[i] \in {"0", "1", "2", "3", "4", "5", "6", "7",
                                                  "8", "9"}

RECURSIVE Pow10(_)
Pow10(k) == IF k = 0 THEN 1 ELSE 10 * Pow10(k - 1)

\* The number an integer string denotes, by the weight of each position.
RECURSIVE WeightedSum(_, _)
WeightedSum(s, i) ==
    IF i > Len(s) THEN 0
    ELSE (IF s[i] \in {"-", "+"} THEN 0 ELSE DigitVal(s[i]) * Pow10(Len(s) - i))
         + WeightedSum(s, i + 1)

IntValue(s) == IF s[1] = "-" THEN 0 - WeightedSum(s, 1) ELSE WeightedSum(s, 1)

AcceptableLevel(s) == IsIntegerString(s) /\ IntValue(s) >= 0 /\ IntValue(s) <= 100

\* The display of the list that a brightness command topic addresses, "" when
\* the list holds none.
AddressedDisplay(topic) ==
    IF \E i \in DOMAIN displays :
           topic = getTopicPrefix \o "/command/display_" \o displays[i] \o "_brightness"
    THEN displays[CHOOSE i \in DOMAIN displays :
           topic = getTopicPrefix \o "/command/display_" \o displays[i] \o "_brightness"]
    ELSE ""

\* C3: no inbound command ends the process, whatever the capability call
\* behind it does: listen returns and the main loop keeps running.
C3_NoCommandEndsProcess ==
    msg.phase = "handled" => (pc = "loop" /\ ~msg.fatal)

\* ^[A-Za-z0-9\s\-_]+$
MatchesShortcutPattern(s) ==
    /\ Len(s) >= 1
    /\ \A i \in DOMAIN s :
           \/ s[i] \in LowerCase \cup UpperCase
           \/ IsDigit(s[i])
           \/ s[i] \in {" ", "\t", "\n", "\r", "\f", "-", "_"}

\* C4: a runshortcut, keepawake or playpause message with a valid payload is
\* consumed by its own handler, which makes its capability call, whatever
\* the display list holds; the display-brightness handler consumes only
\* display_<id>_brightness topics.
C4_ExactTopicRouting ==
    msg.phase = "handled" =>
        /\ (msg.topic = ShortcutTopic /\ MatchesShortcutPattern(msg.payload)) =>
               (msg.consumedBy = "shortcut" /\ HasCall("commandRunShortcut"))
        /\ (msg.topic = KeepAwakeTopic /\ Str(msg.payload) \in {"true", "false"}) =>
               /\ msg.consumedBy = "keepawake"
               /\ HasCall("commandKeepAwake") \/ HasCall("commandAllowSleep")
        /\ (msg.topic = PlayPauseTopic /\ Str(msg.payload) = "playpause") =>
               (msg.consumedBy = "playpause" /\ HasCall("commandPlayPause"))
        /\ msg.consumedBy = "display" => msg.topic \in BrightnessTopics

\* C5: a volume or brightness payload is accepted iff it is an integer string
\* with a value in 0..100; an accepted volume payload is passed to setVolume
\* and an accepted brightness payload for a listed display to
\* setDisplayBrightness; a rejected payload makes no capability call and
\* publishes nothing.
C5_LevelPayloadValidation ==
    msg.phase = "handled" =>
        LET p == msg.payload
            ok == AcceptableLevel(p)
            id == AddressedDisplay(msg.topic)
        IN  /\ validateVolumeInput(p).ok <=> ok
            /\ validateBrightnessInput(p).ok <=> ok
            /\ msg.topic = VolumeTopic =>
                   IF ok THEN msg.calls = <<Call("setVolume", IntValue(p), "")>>
                   ELSE msg.calls = <<>> /\ msg.pubs = <<>>
            /\ msg.topic \in BrightnessTopics =>
                   IF ok /\ id # ""
                   THEN msg.calls = <<Call("setDisplayBrightness", IntValue(p), id)>>
                   ELSE msg.calls = <<>> /\ msg.pubs = <<>>

\* The volume command "101" was rejected.
C5_Witness ==
    /\ msg.phase = "handled"
    /\ msg.topic = VolumeTopic
    /\ msg.payload = <<"1", "0", "1">>
    /\ msg.consumedBy = "volume"
    /\ msg.calls = <<>>
    /\ msg.pubs = <<>>

\* C6: a mute or keep-awake payload is accepted, and its capability called,
\* iff it is exactly "true" or "false".
C6_BooleanPayloadValidation ==
    msg.phase = "handled" =>
        /\ msg.topic = MuteTopic =>
               (HasCall("setMute") <=> Str(msg.payload) \in {"true", "false"})
        /\ msg.topic = KeepAwakeTopic =>
               ((HasCall("commandKeepAwake") \/ HasCall("commandAllowSleep"))
                    <=> Str(msg.payload) \in {"true", "false"})

\* C7: a runshortcut command runs the shortcut iff its payload is non-empty
\* and matches ^[A-Za-z0-9\s\-_]+$.
C7_ShortcutRunsIffValid ==
    (msg.phase = "handled" /\ msg.topic = ShortcutTopic) =>
        (HasCall("commandRunShortcut") <=> MatchesShortcutPattern(msg.payload))

SystemActions == {"sleep", "displaysleep", "displaywake", "shutdown", "screensaver"}

CapabilityNamed(p) ==
    CASE p = "sleep" -> "commandSleep"
      [] p = "displaysleep" -> "commandDisplaySleep"
      [] p = "displaywake" -> "commandDisplayWake"
      [] p = "shutdown" -> "commandShutdown"
      [] p = "screensaver" -> "commandScreensaver"

\* C8: a message on {prefix}/command/set makes exactly the capability call
\* its payload names when the payload is one of the five system actions and
\* none otherwise; either way the system handler consumes it and no later
\* handler sees it.
C8_SystemActionDispatch ==
    (msg.phase = "handled" /\ msg.topic = SetTopic) =>
        /\ msg.consumedBy = "system"
        /\ msg.seen = <<"volume", "mute", "system">>
        /\ msg.pubs = <<>>
        /\ IF Str(msg.payload) \in SystemActions
           THEN msg.calls = <<Call(CapabilityNamed(Str(msg.payload)), -1, "")>>
           ELSE msg.calls = <<>>

\* The system action displaysleep was dispatched.
C8_Witness ==
    /\ msg.phase = "handled"
    /\ msg.topic = SetTopic
    /\ Str(msg.payload) = "displaysleep"
    /\ msg.calls = <<Call("commandDisplaySleep", -1, "")>>
    /\ msg.consumedBy = "system"
    /\ pc = "loop"

(***************************************************************************)
(* The connection lifecycle.                                               *)
(***************************************************************************)
\* C11: when the initial connect cycle ends with a handshake error (the
\* broker was reachable and every transport's handshake failed), Run does
\* not hand the error to main, which would end the process: it goes on in
\* offline mode.
C11_HandshakeFailureKeepsRunning ==
    cycleResult = "err_handshake" => pc # "returned"

\* C12: a reachability poll launches the explicit client.Connect() exactly
\* when it is an edge (the previous poll found the broker unreachable, this
\* one finds it reachable) and the client is not connected; every other
\* poll launches none.
C12_ReconnectNudgeOnEdge ==
    [][NetworkCheckTick =>
          (reconnectRequested' <=>
               (~networkReachable /\ brokerReachable /\ ~connected))]_vars

DiscoveryCount ==
    Cardinality({i \in DOMAIN connPubs : connPubs[i].what = "discovery"})

\* C13: the discovery document is published exactly once on each
\* connection, the first one and every reconnection: never twice, and once
\* the connect handler has run, not zero times.
C13_DiscoveryOncePerConnection ==
    /\ DiscoveryCount <= 1
    /\ (client # "nil" /\ ~handlerPending) => DiscoveryCount = 1

HandlerIdx(what) ==
    {i \in DOMAIN connPubs : connPubs[i].by = "handler" /\ connPubs[i].what = what}

HandlerRan == \E i \in DOMAIN connPubs : connPubs[i].by = "handler"

StateBurst == {"volume", "mute", "caffeinate", "display_brightness", "now_playing",
               "user_activity"}

TickStep ==
    \/ \E capOK \in BOOLEAN : VolumeTick(capOK)
    \/ \E capOK \in BOOLEAN : BatteryTick(capOK)
    \/ AwakeTick

\* C15: a tick of any of the three publication classes that finds the
\* client not connected publishes nothing, does not end the process and
\* changes nothing else the program or the broker holds, so that nothing is
\* left of it to be replayed after a reconnection.
C15_DisconnectedTickIsNoOp ==
    [][(TickStep /\ client # "nil" /\ ~connected) =>
          /\ lastPub' = <<>>
          /\ pc' = "loop"
          /\ UNCHANGED <<brokerReachable, configSSL, client, connected,
                         retryCount, cycleLog, cycleResult, networkReachable,
                         lastConnectionState, reconnectRequested, cmdVars,
                         handlerPending, connPubs, retainedAlive, subVars, lifeVars>>]_vars

\* A battery tick found the client not connected and published nothing.
C15_Witness ==
    /\ pc = "loop"
    /\ client # "nil"
    /\ ~connected
    /\ lastTick = "battery"
    /\ lastPub = <<>>

TickClasses == {"volume", "battery", "awake"}

\* The existing client has reconnected after a connection loss.
Reconnected == client # "nil" /\ connected /\ connections >= 2

\* C32: after every reconnection of the existing client each of the three
\* publication classes publishes again, unless the connection is lost
\* before.
C32_RepublishedAfterReconnect ==
    \A c \in TickClasses :
        (Reconnected /\ c \notin tickPubs) ~> (c \in tickPubs \/ ~connected)

(***************************************************************************)
(* CPU usage.                                                              *)
(***************************************************************************)
\* C16: a call of getCPUUsage whose sample equals the stored previous
\* sample returns UsedPercent 0 and FreePercent 100; no call divides by
\* zero; and after every call that read a sample the stored previous
\* sample is the one just read.
C16_ZeroDeltaUsage ==
    (cpuCall.called /\ ~cpuCall.result.err) =>
        /\ cpuCall.sample = cpuCall.prev =>
               /\ cpuCall.result.UsedPercent = [num |-> 0, den |-> 1]
               /\ cpuCall.result.FreePercent = [num |-> 100, den |-> 1]
        /\ cpuCall.result.UsedPercent.den # 0
        /\ cpuCall.result.FreePercent.den # 0
        /\ lastCPU = cpuCall.sample

\* Two consecutive samples with the same non-zero counters.
C16_Witness ==
    /\ cpuCall.called
    /\ ~cpuCall.result.err
    /\ cpuCall.sample = cpuCall.prev
    /\ cpuCall.sample.User > 0
    /\ cpuCall.sample.Idle > 0
    /\ cpuCall.result.UsedPercent.num = 0
    /\ cpuCall.result.FreePercent.num = 100
    /\ lastCPU = cpuCall.sample

\* The quotient lies in [0, 100].
IsPercentage(q) == q.den > 0 /\ q.num >= 0 /\ q.num <= 100 * q.den

\* C36: whatever the previous and the new sample are, a counter of the new
\* sample lower than in the previous one included, the percentages a call
\* returns each lie in [0, 100] and sum to 100.
C36_PercentagesInRange ==
    (cpuCall.called /\ ~cpuCall.result.err) =>
        /\ IsPercentage(cpuCall.result.UsedPercent)
        /\ IsPercentage(cpuCall.result.FreePercent)
        /\ cpuCall.result.UsedPercent.den = cpuCall.result.FreePercent.den
        /\ cpuCall.result.UsedPercent.num + cpuCall.result.FreePercent.num
               = 100 * cpuCall.result.FreePercent.den

(***************************************************************************)
(* The activity monitor.                                                   *)
(***************************************************************************)
\* C17: the activity state starts inactive; after a tick that sampled idle
\* time on a connected client the state is active iff it was active before
\* or the sample is lower than the previous sample or lower than 2 seconds;
\* "active" is published by that tick iff the state changed from inactive
\* to active, so never while the state was active already.
C17_ActiveOnFreshInput ==
    /\ actLast.op = "none" => userActivityState = "inactive"
    /\ (actLast.op = "tick" /\ actLast.sampled) =>
           LET fresh == actLast.idle < actLast.prevIdle \/ actLast.idle < 2
               published == \E i \in DOMAIN actLast.pubs : actLast.pubs[i] = "active"
           IN  /\ userActivityState = "active" <=>
                      (actLast.prevState = "active" \/ fresh)
               /\ published <=> (actLast.prevState = "inactive" /\ fresh)
               /\ actLast.prevState = "active" => ~published

\* The state was active and a sample below the floor came: nothing but the
\* idle time was published.
C17_Witness ==
    /\ actLast.op = "tick"
    /\ actLast.sampled
    /\ actLast.prevState = "active"
    /\ actLast.idle = 1
    /\ actLast.prevIdle = 3
    /\ userActivityState = "active"
    /\ actLast.pubs = <<"idle_time_seconds">>

\* C18: counted from the last sample that triggered Active, the state
\* becomes inactive at most once, exactly one idle threshold after that
\* sample, is active until then and inactive from then on.
C18_InactiveOnceAfterThreshold ==
    sinceTrigger >= 0 =>
        /\ Len(inactiveAt) <= 1
        /\ \A i \in DOMAIN inactiveAt : inactiveAt[i] = IdleActivityTime * 2
        /\ userActivityState = "inactive" <=> Len(inactiveAt) = 1
        /\ sinceTrigger > IdleActivityTime * 2 => userActivityState = "inactive"

\* C25: the callback of a timer that a later resetActivityTimer has
\* superseded changes nothing: from a sample that triggered Active until
\* the threshold armed by that sample has elapsed, the state is active.
C25_SupersededCallbackIsInert ==
    (sinceTrigger >= 0 /\ sinceTrigger < Threshold) => userActivityState = "active"

\* The default that getConfig announces, line 165, in seconds.
DefaultIdleActivityTime == 10

\* C33: with no idle_activity_time in the configuration the threshold is 10
\* seconds: from a sample that triggered Active until 10 seconds later the
\* state is active.
C33_DefaultThreshold ==
    (sinceTrigger >= 0 /\ sinceTrigger < DefaultIdleActivityTime * TicksPerSecond) =>
        userActivityState = "active"

\* C35: whenever the client is connected, its connect handler has run and
\* no timer callback is waiting, the last value published on
\* {prefix}/status/user_activity is the local activity state.
C35_PublishedActivityIsLocalState ==
    (pc = "loop" /\ client # "nil" /\ connected /\ ~handlerPending /\ callbacks = 0) =>
        lastActivityPub = userActivityState

\* C26: at most one debounce timer is pending, and it is the stored one:
\* every timer armed before it was stopped or has expired.
C26_OnePendingTimer ==
    /\ pendingTimers <= 1
    /\ pendingTimers = IF activityTimer.state = "armed" THEN 1 ELSE 0

\* An old poller, its context cancelled, and the new poller have both taken
\* a triggering sample in the same interval: each reset the timer, and one
\* timer is pending.
C26_Witness ==
    /\ Len(pollers) = 2
    /\ pollers[1].ctx = "cancelled"
    /\ pollers[2].ctx = "live"
    /\ pollers[1].last = 0
    /\ pollers[2].last = 1
    /\ ~pollers[1].due
    /\ ~pollers[2].due
    /\ sinceTrigger = 0
    /\ activityTimer = NewTimer
    /\ pendingTimers = 1
    /\ actLast.prevState = "active"

(***************************************************************************)
(* The media stream.                                                       *)
(***************************************************************************)
\* The payload has key k with a value of JSON type t.
Carries(k, t) ==
    k \in DOMAIN mediaEvent.payload /\ mediaEvent.payload[k].t = t

\* C19: an event changes only the fields its payload names: a field none of
\* whose keys is in the payload with a value of the right type keeps its
\* prior value, and a payload with the key title alone, a string, changes
\* Title to that string and nothing else.
C19_MergeTouchesNamedFieldsOnly ==
    (mediaEvent.kind = "event" /\ mediaEvent.merged) =>
        LET old == mediaEvent.prior
            new == currentMediaState
        IN  /\ ~Carries("title", "string") => new.Title = old.Title
            /\ ~Carries("artist", "string") => new.Artist = old.Artist
            /\ ~Carries("album", "string") => new.Album = old.Album
            /\ (~Carries("appName", "string") /\ ~Carries("bundleIdentifier", "string"))
                   => new.AppName = old.AppName
            /\ ~Carries("playing", "bool") => new.State = old.State
            /\ (\A k \in {"duration", "durationMicros", "totalTime", "totalDuration"} :
                    ~Carries(k, "number")) => new.Duration = old.Duration
            /\ (\A k \in {"elapsedTime", "position", "positionMicros"} :
                    ~Carries(k, "number")) => new.Position = old.Position
            /\ new.AppBundleID = old.AppBundleID
            /\ (DOMAIN mediaEvent.payload = {"title"} /\ Carries("title", "string")) =>
                   new = [old EXCEPT !.Title = mediaEvent.payload["title"].s]

\* An event with the title alone came on a state that had every field set.
C19_Witness ==
    /\ mediaEvent.kind = "event"
    /\ mediaEvent.merged
    /\ DOMAIN mediaEvent.payload = {"title"}
    /\ mediaEvent.payload["title"].t = "string"
    /\ mediaEvent.payload["title"].s = "X"
    /\ mediaEvent.prior.Title = "T0"
    /\ mediaEvent.prior.Artist = "A0"
    /\ currentMediaState.Title = "X"
    /\ currentMediaState.Artist = "A0"
    /\ currentMediaState.State = "playing"
    /\ currentMediaState.Duration = 200

\* C20: after an event whose payload has a boolean playing, the playback
\* state is "playing" when it is true and "paused" when it is false.
C20_PlayingFieldSetsState ==
    (mediaEvent.kind = "event" /\ mediaEvent.merged /\ Carries("playing", "bool")) =>
        currentMediaState.State =
            IF mediaEvent.payload["playing"].b THEN "playing" ELSE "paused"

\* C21: every line of the stream that is an event with a payload is merged
\* into the media state and followed by a publish of the whole state as it
\* is then, also when the line comes while the client is not connected.
C21_EveryEventMergedAndPublished ==
    mediaEvent.kind = "event" =>
        /\ mediaEvent.merged
        /\ mediaEvent.pubs = MediaPubs(currentMediaState)

\* C37: the merge is a function of the prior state and the payload: the
\* state after an event is the same in whatever order the keys of the
\* payload were visited.
C37_MergeIsDeterministic ==
    (mediaEvent.kind = "event" /\ mediaEvent.merged) =>
        \A o \in KeyOrders(mediaEvent.payload) :
            processMediaStreamUpdate(mediaEvent.prior, mediaEvent.payload, o)
                = currentMediaState

\* The readers that are executing processMediaStreamUpdate.
Busy == {r \in ReaderSlots : updates[r].busy}

\* Reader r has merged some keys of its payload and not all.
HalfWay(r) ==
    /\ updates[r].busy
    /\ updates[r].done > 0
    /\ updates[r].done < Len(updates[r].order)

\* C31: at most one execution of processMediaStreamUpdate is in progress,
\* and no execution publishes its snapshot while another has merged some
\* keys of its payload and not all.
C31_MergesAreExclusive ==
    [][/\ Cardinality(Busy') <= 1
       /\ \A r \in ReaderSlots :
              (updates[r].busy /\ ~updates'[r].busy) =>
                  \A s \in ReaderSlots \ {r} : ~HalfWay(s)]_vars

BadLines == {"empty", "garbage", "nopayload"}

LivePollers == {i \in DOMAIN pollers : pollers[i].ctx = "live"}

\* C22: whatever connects, reconnects and starts of the activity monitor
\* have happened, at most one poller has a context that is not cancelled:
\* the one started last; every poller started before it has had its context
\* cancelled.
C22_OneLivePoller ==
    /\ Cardinality(LivePollers) <= 1
    /\ \A i \in DOMAIN pollers : i < Len(pollers) => pollers[i].ctx = "cancelled"

\* After a reconnection: the poller of the handler that ran last is live,
\* two pollers started before it are cancelled and have not returned.
C22_Witness ==
    /\ connections >= 2
    /\ ~handlerPending
    /\ Len(pollers) = 3
    /\ pollers[1].ctx = "cancelled"
    /\ pollers[2].ctx = "cancelled"
    /\ pollers[3].ctx = "live"

\* C23: whatever connects and reconnects have happened, at most one reader
\* of the media stream is running.
C23_OneRunningReader == readers.running <= 1

\* C30: once a reader of the media stream has ended, no step starts a
\* reader: the feed stays ended for the rest of the process.
C30_EndedStreamStaysEnded ==
    [][readers.ended > 0 => readers'.running <= readers.running]_vars

(***************************************************************************)
(* The dispatch of inbound messages.                                       *)
(***************************************************************************)
\* C24: inbound command messages are handled one at a time: while a handler
\* is between its start and its return, no other handler is.
C24_HandlersDoNotOverlap ==
    ~(msg.phase # "none" /\ nextMsg.phase # "none")

(***************************************************************************)
(* The order of a command's side effects.                                  *)
(***************************************************************************)
\* The kinds of the followed message's steps, in program order.
StepKinds == [i \in DOMAIN msg.steps |-> msg.steps[i].kind]

\* The topics of what the followed message published, in order.
PubTopics == [i \in DOMAIN msg.pubs |-> msg.pubs[i].topic]

\* The followed command made its capability call and the call succeeded.
Successful(cap) ==
    \E i \in DOMAIN msg.steps :
        /\ msg.steps[i].kind = "call"
        /\ msg.steps[i].call.cap = cap
        /\ msg.steps[i].ok

\* Every step of kind a comes before every step of kind b.
AllBefore(a, b) ==
    \A i, j \in DOMAIN msg.steps :
        (msg.steps[i].kind = a /\ msg.steps[j].kind = b) => i < j

StatusVolume == getTopicPrefix \o "/status/volume"

StatusMute == getTopicPrefix \o "/status/mute"

StatusCaffeinate == getTopicPrefix \o "/status/caffeinate"

\* C38: an empty display list stays empty under every tick and command, and a message that reaches the display-brightness handler while
\* the list is empty is consumed there with no capability call.
C38_EmptyListIsAbsorbing ==
    [][displays = <<>> =>
          /\ displays' = <<>>
          /\ (msg.phase = "received" /\ msg'.phase = "handled"
                 /\ Has(msg'.seen, "display")) =>
                (msg'.consumedBy = "display" /\ msg'.calls = <<>>)]_vars

\* The list is empty, an awake tick has run since, and a shortcut command
\* with a valid name went no further than the display-brightness handler.
C38_Witness ==
    /\ displays = <<>>
    /\ lastTick = "awake"
    /\ msg.phase = "handled"
    /\ msg.topic = getTopicPrefix \o "/command/runshortcut"
    /\ validateShortcutInput(msg.payload)
    /\ msg.consumedBy = "display"
    /\ msg.calls = <<>>

\* C39: while the loop of handleDisplayBrightnessCommand is under way no
\* step replaces app.displays.
C39_ListNotReplacedWhileRanging ==
    [][ranging.busy => displays' = displays]_vars

\* C27: a handled command validates before it calls the capability and
\* calls the capability before it publishes any status; a volume command
\* whose setVolume call and read-back succeeded called setVolume once with
\* the commanded level and then published the volume status and then the
\* mute status; a mute command likewise with setMute; a keep-awake command
\* whose call succeeded published the caffeinate status after it.
C27_CallThenPublish ==
    msg.phase = "handled" =>
        /\ AllBefore("validate", "call")
        /\ AllBefore("call", "publish")
        /\ (Successful("setVolume") /\ ~msg.fatal) =>
               /\ msg.calls = <<Call("setVolume", IntValue(msg.payload), "")>>
               /\ PubTopics = <<StatusVolume, StatusMute>>
               /\ StepKinds = <<"validate", "call", "read", "publish", "read", "publish">>
        /\ (Successful("setMute") /\ ~msg.fatal) =>
               /\ Len(msg.calls) = 1
               /\ PubTopics = <<StatusVolume, StatusMute>>
               /\ StepKinds = <<"validate", "call", "read", "publish", "read", "publish">>
        /\ (Successful("commandKeepAwake") \/ Successful("commandAllowSleep")) =>
               /\ Len(msg.calls) = 1
               /\ PubTopics = <<StatusCaffeinate>>
               /\ StepKinds = <<"validate", "call", "read", "publish">>

\* A volume command "50" that set the volume and published both statuses.
C27_Witness ==
    /\ msg.phase = "handled"
    /\ msg.topic = VolumeTopic
    /\ msg.payload = <<"5", "0">>
    /\ Successful("setVolume")
    /\ ~msg.fatal
    /\ PubTopics = <<StatusVolume, StatusMute>>

\* C28: a brightness command whose setDisplayBrightness call fails
\* publishes nothing; one whose call succeeds publishes exactly one
\* message: retained, the commanded value, on the status topic of the
\* display that the command topic addresses.
C28_BrightnessStatusOnlyOnSuccess ==
    (msg.phase = "handled" /\ HasCall("setDisplayBrightness")) =>
        LET id == AddressedDisplay(msg.topic)
        IN  /\ id # ""
            /\ IF Successful("setDisplayBrightness")
               THEN msg.pubs = <<Pub(getTopicPrefix \o "/status/display_" \o id
                                       \o "_brightness",
                                     TRUE, Itoa(IntValue(msg.payload)))>>
               ELSE msg.pubs = <<>>

\* With displays 2 and 1 listed, a failed brightness command for display 1
\* published nothing.
C28_Witness ==
    /\ msg.phase = "handled"
    /\ displays = <<"2", "1">>
    /\ msg.topic = getTopicPrefix \o "/command/display_1_brightness"
    /\ HasCall("setDisplayBrightness")
    /\ ~Successful("setDisplayBrightness")
    /\ msg.pubs = <<>>

=============================================================================
